---- MODULE Spec2Model ----
(***************************************************************************)
(* Model of bluetooth_screen_lock.monitor.ProximityMonitor: the BLE        *)
(* proximity evaluator (detection callback, scan-loop tick, Away cooldown, *)
(* update_config).  Time is time.time() in whole seconds; a Python         *)
(* Optional[x] is the empty sequence (None) or <<x>>.                      *)
(***************************************************************************)
EXTENDS Integers, Sequences, FiniteSets, TLC

None == <<>>
Some(v) == <<v>>
Val(o) == o[1]

Max(a, b) == IF a >= b THEN a ELSE b
Min(a, b) == IF a <= b THEN a ELSE b

(* ---------------------------------------------------------------------- *)
(* Bounds of the model                                                     *)
(* ---------------------------------------------------------------------- *)
\* the clock runs from Epoch to Epoch + MaxClock
MaxClock == 10

\* time.time() at construction: never 0, which the code uses for "never seen",
\* and larger than every configured duration
Epoch == 1000

(* ---------------------------------------------------------------------- *)
(* MonitorConfig                                                           *)
(* ---------------------------------------------------------------------- *)
MonitorConfig(mac, name, thr, grace, hyst, stale, unseen, interval, need) ==
    [device_mac |-> mac, device_name |-> name, rssi_threshold |-> thr,
     grace_period_sec |-> grace, hysteresis_db |-> hyst,
     stale_after_sec |-> stale, unseen_grace_sec |-> unseen,
     scan_interval_sec |-> interval, near_consecutive_scans |-> need]

\* the configurations a monitor is constructed with or swapped to
CfgDebounce == MonitorConfig("aa:01", "", -75, 3, 5, 2, 2, 1, 2)
CfgQuick    == MonitorConfig("AA:01", "Phone", -75, 0, 5, 0, 1, 0, 1)
CfgByName   == MonitorConfig("", " phone", -73, 2, 0, 3, 1, 2, 2)
CfgNoTarget == MonitorConfig("", "", -75, 0, 5, 0, 1, 0, 1)
Configs == {CfgDebounce, CfgQuick, CfgByName, CfgNoTarget}

\* what an advertisement can carry
Advertisers == {<<"aa:01", "Phone">>, <<"AA:01", "">>, <<"BB:02", "PHONE ">>,
                <<"BB:02", "Other">>, <<"", "">>}
RssiValues == {-75, -73, -71, -70, -69}
\* bleak's AdvertisementData always carries an integer rssi
AdvRssi == {Some(r) : r \in RssiValues}

\* str.upper(), str.lower() and str.strip() on the strings of the model
Upper(s) == CASE s = "aa:01" -> "AA:01"
              [] s = "Phone" -> "PHONE"
              [] s = " phone" -> " PHONE"
              [] s = "phone" -> "PHONE"
              [] s = "Other" -> "OTHER"
              [] OTHER -> s
Lower(s) == CASE s = "AA:01" -> "aa:01"
              [] s = "Phone" -> "phone"
              [] s = "PHONE " -> "phone "
              [] s = "PHONE" -> "phone"
              [] s = "Other" -> "other"
              [] OTHER -> s
Strip(s) == CASE s = " phone" -> "phone"
              [] s = "PHONE " -> "PHONE"
              [] s = "phone " -> "phone"
              [] s = " PHONE" -> "PHONE"
              [] OTHER -> s

VARIABLES
    clock,              \* time.time()
    config,             \* self._config
    scan_interval,      \* self._scan_interval
    on_near,            \* whether an on_near callback is registered
    last_seen_ts,       \* self._last_seen_ts (0 = never seen)
    last_rssi,          \* self._last_rssi
    below_since_ts,     \* self._below_since_ts
    near_consec_count,  \* self._near_consec_count
    pc,                 \* where the scan loop is suspended
    wake_at,            \* when the sleep the loop is suspended in ends
    step,               \* the operation that produced this state
    emitted,            \* the events the last tick emitted
    \* history of the run, read by the properties only
    fresh,              \* a matching detection arrived since construction / update_config
    since_swap,         \* seconds since construction or the last update_config, up to SwapCap
    adv_rssi,           \* rssi of the latest matching advertisement since then
    run,                \* the tick samples seen since the weak-signal timer was started
    qual,               \* consecutive qualifying tick samples since construction / update_config
    qual_raw,           \* the same, counted across update_config
    cool_until,         \* end of the cooldown of the latest Away, 0 once a tick followed
    cleared_timer,      \* the last update_config found the weak-signal timer running
    \* the scripted scenario
    feed_idx,           \* the next detection of the script
    log,                \* the Near and Away events emitted so far, with their times
    \* the statements of a tick and of update_config, taken one at a time
    t_pc,               \* the statement the tick is at ("idle": suspended in a sleep)
    loc,                \* the tick's local variables
    u_pc,               \* the statement update_config is at ("idle": not running)
    u_cfg,              \* update_config's argument
    swaps,              \* calls of update_config so far
    snap,               \* the monitor when the first of two overlapping operations began
    overlap,            \* a tick and update_config ran at the same time
    \* the retry loop of _scan_loop
    running,            \* self._running
    s_pc,               \* where the loop's task is ("none": no task yet)
    scanner,            \* the local scanner: "none", "created", "started", "stopped"
    backoff,            \* the local backoff
    ble_error_count,    \* self._ble_error_count
    raised,             \* the steady loop is being left through an exception
    sleeps,             \* the retry delays slept since the loop began or last opened
    open_sources,       \* scanners started on which stop() was not called
    failures,           \* the phases in which a failure occurred so far
    levels,             \* the log levels of the failures reported since the last open
    \* start() and stop_async() called while scan-loop tasks exist
    tasks,              \* where each task created by StartCall is, in creation order
    task,               \* self._task: an index of tasks, 0 for None
    callers,            \* per caller of stop_async, the task it awaits (0: not waiting)
    \* what the callbacks did and were given
    cb_failed,          \* the callbacks that raised during the last tick
    last_update,        \* the argument of the latest on_rssi call
    skipped,            \* whether a matching detection awaits its tick, and the
                        \* rssi of the detection it replaced, if it replaced one
    \* the configuration loader
    file,               \* what the configuration file holds
    loaded,             \* what load_config returned
    \* the host application (app.py)
    armed,              \* self._armed
    was_near,           \* self._was_near
    last_unlock_ts,     \* self._last_unlock_ts (0 = no unlock observed)
    app_cfg,            \* the fields of self._cfg the callbacks read
    app_now,            \* time.time() as the host reads it
    app_did,            \* what the last host handler did
    near_runs,          \* calls of _run_near_command since the last Away
    away_seen,          \* whether on_away has been called
    \* the settings window's RSSI monitor (settings.py)
    rssi_monitor_running,   \* self._rssi_monitor_running
    rssi_threads,       \* the threads _start_rssi_monitor created, in order
    selected_mac,       \* self._selected_mac ("" for None)
    ui_pc,              \* where _on_device_changed is
    \* write_replace_text_in_dir (file_ops.py)
    fs,                 \* the directory: what the names dst and tmp hold
    w_pc,               \* where the call is
    w_result,           \* "none" while it runs, "ok", or the step that raised
    w_content,          \* the content to write, in the chunks the write takes
    w_old,              \* what dst held when the call began
    \* the autostart entry (app.py)
    entry,              \* the autostart .desktop file, None if there is none
    start_delay_sec,    \* self._cfg.start_delay_sec
    installed,          \* which of the files _apply_autostart looks for exist
    applied             \* the branch the last _apply_autostart took

coreVars == <<clock, config, scan_interval, on_near, last_seen_ts, last_rssi,
              below_since_ts, near_consec_count, pc, wake_at, step, emitted>>
histVars == <<fresh, since_swap, adv_rssi, run, qual, qual_raw, cool_until,
              cleared_timer>>
scenVars == <<feed_idx, log>>
raceVars == <<t_pc, loc, u_pc, u_cfg, swaps, snap, overlap>>
supVars == <<running, s_pc, scanner, backoff, ble_error_count, raised, sleeps,
             open_sources, failures, levels>>
lifeVars == <<tasks, task, callers>>
obsVars == <<cb_failed, last_update, skipped>>
cfgVars == <<file, loaded>>
hostVars == <<armed, was_near, last_unlock_ts, app_cfg, app_now, app_did, near_runs,
              away_seen>>
uiVars == <<rssi_monitor_running, rssi_threads, selected_mac, ui_pc>>
fsVars == <<fs, w_pc, w_result, w_content, w_old>>
deskVars == <<entry, start_delay_sec, installed, applied>>
appVars == <<hostVars, uiVars, fsVars, deskVars>>
monVars == <<coreVars, histVars, scenVars, raceVars, supVars, lifeVars, obsVars,
             cfgVars>>
vars == <<monVars, appVars>>
otherThanHost == <<monVars, uiVars, fsVars, deskVars>>
otherThanUi == <<monVars, hostVars, fsVars, deskVars>>
otherThanFs == <<monVars, hostVars, uiVars, deskVars>>
otherThanDesk == <<monVars, hostVars, uiVars, fsVars>>

NoEvents == [rssi |-> None, near |-> None, away |-> "no"]

(* ---------------------------------------------------------------------- *)
(* ProximityMonitor.__init__                                               *)
(* ---------------------------------------------------------------------- *)
ScanInterval(cfg) == Max(1, cfg.scan_interval_sec)

InitMonitor(cfg) ==
    /\ config = cfg
    /\ scan_interval = ScanInterval(cfg)
    /\ last_seen_ts = 0
    /\ last_rssi = None
    /\ below_since_ts = None
    /\ near_consec_count = 0

(* ---------------------------------------------------------------------- *)
(* _scan_loop.on_detect                                                    *)
(* ---------------------------------------------------------------------- *)
MatchedEmptyAddress(cfg, address, name) ==
    LET target_mac == Upper(cfg.device_mac)
        name_sub   == Lower(Strip(cfg.device_name))
        dev_addr   == Upper(address)
        dev_name   == Strip(name)
        by_mac     == dev_addr = target_mac
    IN  IF target_mac = "" /\ name_sub # "" /\ ~by_mac
        THEN (IF dev_name # "" THEN Lower(dev_name) = name_sub ELSE FALSE)
        ELSE by_mac

MatchedByNameToo(cfg, address, name) ==
    LET target_mac == Upper(cfg.device_mac)
        name_sub   == Lower(Strip(cfg.device_name))
        dev_addr   == Upper(address)
        dev_name   == Strip(name)
        by_mac     == IF target_mac # "" THEN dev_addr = target_mac ELSE FALSE
    IN  IF name_sub # "" /\ ~by_mac
        THEN (IF dev_name # "" THEN Lower(dev_name) = name_sub ELSE FALSE)
        ELSE by_mac

\* lines 121-131
Matched(cfg, address, name) ==
    LET target_mac == Upper(cfg.device_mac)
        name_sub   == Lower(Strip(cfg.device_name))
        dev_addr   == Upper(address)
        dev_name   == Strip(name)
        by_mac     == IF target_mac # "" THEN dev_addr = target_mac ELSE FALSE
    IN  IF target_mac = "" /\ name_sub # "" /\ ~by_mac
        THEN (IF dev_name # "" THEN Lower(dev_name) = name_sub ELSE FALSE)
        ELSE by_mac

OnDetectKeepsStrongest(address, name, rssi) ==
    /\ IF Matched(config, address, name)
       THEN /\ last_seen_ts' = clock
            /\ last_rssi' = IF last_rssi # None /\ Val(last_rssi) > Val(rssi)
                            THEN last_rssi ELSE rssi
       ELSE UNCHANGED <<last_seen_ts, last_rssi>>
    /\ step' = "detect"
    /\ emitted' = NoEvents
    /\ UNCHANGED <<clock, config, scan_interval, on_near, below_since_ts,
                   near_consec_count, pc, wake_at>>

OnDetect(address, name, rssi) ==
    /\ IF Matched(config, address, name)
       THEN /\ last_seen_ts' = clock
            /\ last_rssi' = rssi
       ELSE UNCHANGED <<last_seen_ts, last_rssi>>
    /\ step' = "detect"
    /\ emitted' = NoEvents
    /\ UNCHANGED <<clock, config, scan_interval, on_near, below_since_ts,
                   near_consec_count, pc, wake_at>>

(* ---------------------------------------------------------------------- *)
(* _scan_loop: one iteration of the steady loop                            *)
(* ---------------------------------------------------------------------- *)
StaleBoundNoFloor(cfg) == cfg.stale_after_sec

StaleBound(cfg) == Max(cfg.stale_after_sec, 1)

\* lines 155-165: the RSSI the tick evaluates
Sample(lrssi, lseen, now, cfg) ==
    IF lseen # 0 /\ now - lseen > StaleBound(cfg) THEN None ELSE lrssi

NearTriggerNoHysteresis(cfg) == cfg.rssi_threshold

NearTrigger(cfg) == cfg.rssi_threshold + Max(0, cfg.hysteresis_db)

Need(cfg) == Max(1, cfg.near_consecutive_scans)

NearCountKeptWhenUnseen(count, rssi, cfg) ==
    IF rssi = None THEN count
    ELSE IF Val(rssi) > NearTrigger(cfg) THEN count + 1 ELSE 0

\* lines 186-189 and 223: the counter before the clamp
NearCount(count, rssi, cfg) ==
    IF rssi # None /\ Val(rssi) > NearTrigger(cfg) THEN count + 1 ELSE 0

NearFiresOnTransition(count, cfg, registered) == registered /\ count = Need(cfg)

\* lines 192-198
NearFires(count, cfg, registered) == registered /\ count >= Need(cfg)

BelowSinceNeverCleared(below, rssi, now, cfg) ==
    IF Val(rssi) <= cfg.rssi_threshold
    THEN (IF below = None THEN Some(now) ELSE below)
    ELSE below

BelowSinceClearedAboveThreshold(below, rssi, now, cfg) ==
    IF Val(rssi) <= cfg.rssi_threshold
    THEN (IF below = None THEN Some(now) ELSE below)
    ELSE None

\* lines 200-207
BelowSince(below, rssi, now, cfg) ==
    IF Val(rssi) <= cfg.rssi_threshold
    THEN (IF below = None THEN Some(now) ELSE below)
    ELSE (IF Val(rssi) > NearTrigger(cfg) THEN None ELSE below)

WeakAwayStrict(below, now, cfg) ==
    below # None /\ now - Val(below) > cfg.grace_period_sec

\* lines 210-219
WeakAway(below, now, cfg) ==
    below # None /\ now - Val(below) >= cfg.grace_period_sec

UnseenRequiredNoGrace(cfg) == cfg.stale_after_sec

UnseenRequired(cfg) == cfg.stale_after_sec + cfg.unseen_grace_sec

\* lines 224-230
SilentAway(since_seen, cfg) == since_seen >= UnseenRequired(cfg)

AwayPathUnguarded(lseen, rssi, below, now, cfg) ==
    IF rssi # None
    THEN (IF WeakAway(BelowSince(below, rssi, now, cfg), now, cfg)
          THEN "weak" ELSE "no")
    ELSE (IF SilentAway(now - lseen, cfg) THEN "silent" ELSE "no")

\* lines 174-230: which Away, if any, the tick decides
AwayPath(lseen, rssi, below, now, cfg) ==
    IF lseen = 0 THEN "no"
    ELSE IF rssi # None
         THEN (IF WeakAway(BelowSince(below, rssi, now, cfg), now, cfg)
               THEN "weak" ELSE "no")
         ELSE (IF SilentAway(now - lseen, cfg) THEN "silent" ELSE "no")

CooldownNone(cfg) == 0

\* the sleep after an Away (line 239)
Cooldown(cfg) == cfg.grace_period_sec

RssiUpdateFloorForUnknown(rssi) == IF rssi = None THEN Some(Some(-120)) ELSE Some(rssi)

\* lines 168-172: on_rssi is called with the sample, None included
RssiUpdate(rssi) == Some(rssi)

\* lines 153-239: what one iteration does to the tracker and what it emits
TickOutcome(cfg, lseen, lrssi, below, count, now, registered) ==
    LET rssi == Sample(lrssi, lseen, now, cfg)
        seen == lseen # 0
        c    == NearCount(count, rssi, cfg)
        near == seen /\ rssi # None /\ NearFires(c, cfg, registered)
        b    == IF seen /\ rssi # None
                THEN BelowSince(below, rssi, now, cfg)
                ELSE below
        away == AwayPath(lseen, rssi, below, now, cfg)
    IN  [rssi  |-> rssi,
         count |-> IF ~seen THEN count ELSE IF near THEN Need(cfg) ELSE c,
         below |-> IF away # "no" THEN None ELSE b,
         events |-> [rssi |-> RssiUpdate(rssi),
                     near |-> IF near THEN rssi ELSE None,
                     away |-> away]]

\* lines 153-243, up to the next await
TickBody ==
    /\ pc = "tick"
    /\ clock = wake_at
    /\ LET o == TickOutcome(config, last_seen_ts, last_rssi, below_since_ts,
                            near_consec_count, clock, on_near)
       IN  /\ last_rssi' = o.rssi
           /\ near_consec_count' = o.count
           /\ below_since_ts' = o.below
           /\ emitted' = o.events
           /\ IF o.events.away # "no"
              THEN /\ pc' = "cooldown"
                   /\ wake_at' = clock + Cooldown(config)
                   /\ UNCHANGED scan_interval
              ELSE /\ pc' = "tick"
                   /\ scan_interval' = ScanInterval(config)
                   /\ wake_at' = clock + scan_interval'
    /\ step' = "tick"
    /\ UNCHANGED <<clock, config, on_near, last_seen_ts>>

\* lines 241-243 after the cooldown sleep of line 239
CooldownBody ==
    /\ pc = "cooldown"
    /\ clock = wake_at
    /\ scan_interval' = ScanInterval(config)
    /\ wake_at' = clock + scan_interval'
    /\ pc' = "tick"
    /\ step' = "cooldown_done"
    /\ emitted' = NoEvents
    /\ UNCHANGED <<clock, config, on_near, last_seen_ts, last_rssi,
                   below_since_ts, near_consec_count>>

(* ---------------------------------------------------------------------- *)
(* ProximityMonitor.update_config                                          *)
(* ---------------------------------------------------------------------- *)
UpdateConfigKeepsTimer(cfg) ==
    /\ config' = cfg
    /\ last_seen_ts' = 0
    /\ last_rssi' = None
    /\ near_consec_count' = 0
    /\ scan_interval' = ScanInterval(cfg)
    /\ step' = "update_config"
    /\ emitted' = NoEvents
    /\ UNCHANGED <<clock, on_near, pc, wake_at, below_since_ts>>

\* lines 285-294
UpdateConfig(cfg) ==
    /\ config' = cfg
    /\ last_seen_ts' = 0
    /\ last_rssi' = None
    /\ below_since_ts' = None
    /\ near_consec_count' = 0
    /\ scan_interval' = ScanInterval(cfg)
    /\ step' = "update_config"
    /\ emitted' = NoEvents
    /\ UNCHANGED <<clock, on_near, pc, wake_at>>

(* ---------------------------------------------------------------------- *)
(* Time                                                                    *)
(* ---------------------------------------------------------------------- *)
\* a second passes; the sleep the loop is suspended in ends exactly at wake_at
Elapse(limit) ==
    /\ clock < limit
    /\ clock < wake_at
    /\ clock' = clock + 1
    /\ step' = "advance"
    /\ emitted' = NoEvents
    /\ UNCHANGED <<config, scan_interval, on_near, last_seen_ts, last_rssi,
                   below_since_ts, near_consec_count, pc, wake_at>>

(* ---------------------------------------------------------------------- *)
(* History of the run                                                      *)
(* ---------------------------------------------------------------------- *)
NoRun == [first |-> "none", dead |-> FALSE, null |-> FALSE, strong |-> FALSE]

\* how the data model classifies a sample against a configuration
Class(s, cfg) ==
    IF s = None THEN "null"
    ELSE IF Val(s) <= cfg.rssi_threshold THEN "weak"
    ELSE IF Val(s) > cfg.rssi_threshold + cfg.hysteresis_db THEN "strong"
    ELSE "dead"

QualCap == 2

SwapCap == 4

InitHistory ==
    /\ fresh = FALSE
    /\ since_swap = 0
    /\ adv_rssi = None
    /\ run = NoRun
    /\ qual = 0
    /\ qual_raw = 0
    /\ cool_until = 0
    /\ cleared_timer = FALSE

\* the tick samples since the timer was started, the starting sample included
RunAfterTick ==
    LET c == Class(Val(emitted'.rssi), config)
        r == IF below_since_ts = None THEN NoRun ELSE run
    IN  IF below_since_ts' = None /\ emitted'.away = "no" THEN NoRun
        ELSE [first |-> IF below_since_ts = None THEN c ELSE r.first,
              dead |-> r.dead \/ c = "dead", null |-> r.null \/ c = "null",
              strong |-> r.strong \/ c = "strong"]

HistoryOfTick ==
    /\ run' = RunAfterTick
    /\ qual' = IF Class(Val(emitted'.rssi), config) = "strong"
               THEN Min(qual + 1, QualCap) ELSE 0
    /\ qual_raw' = IF Class(Val(emitted'.rssi), config) = "strong"
                   THEN Min(qual_raw + 1, QualCap) ELSE 0
    /\ cool_until' = IF emitted'.away # "no" THEN clock + config.grace_period_sec ELSE 0
    /\ UNCHANGED <<fresh, since_swap, adv_rssi, cleared_timer>>

HistoryOfSwap ==
    /\ fresh' = FALSE
    /\ since_swap' = 0
    /\ adv_rssi' = None
    /\ run' = NoRun
    /\ qual' = 0
    /\ cleared_timer' = (below_since_ts # None)
    /\ UNCHANGED <<qual_raw, cool_until>>

NoLocals == [now |-> 0, rssi |-> None, since_seen |-> None, near_trigger |-> 0,
             need |-> 0, weak_duration |-> 0, away |-> "no"]

InitRace ==
    /\ t_pc = "idle"
    /\ loc = NoLocals
    /\ u_pc = "idle"
    /\ u_cfg = None
    /\ swaps = 0
    /\ snap = None
    /\ overlap = FALSE

\* callers of stop_async that may be waiting at the same time
MaxCallers == 2
Callers == 1 .. MaxCallers

\* no host handler has run
NoHostEffect == [op |-> "none", is_near |-> FALSE, called |-> FALSE, ran |-> FALSE,
                 locked |-> FALSE, raised |-> FALSE]

\* config.py:91-112: the defaults of Config the callbacks read
DefaultAppCfg == [rssi_threshold |-> -75, locking_enabled |-> TRUE,
                  re_lock_delay_sec |-> [t |-> "int", n |-> 0], near_command |-> ""]

\* app.py:50-56
HostIdle ==
    /\ armed = FALSE
    /\ was_near = FALSE
    /\ last_unlock_ts = 0
    /\ app_now = Epoch
    /\ app_did = NoHostEffect
    /\ near_runs = 0
    /\ away_seen = FALSE

\* settings.py:70-71: the settings window before a device is selected
UiIdle ==
    /\ rssi_monitor_running = FALSE
    /\ rssi_threads = <<>>
    /\ selected_mac = ""
    /\ ui_pc = "idle"

\* a file of the directory: absent, a symlink, or a regular file with the
\* chunks written to it
NoFile == [kind |-> "absent", data |-> <<>>]
Symlink == [kind |-> "symlink", data |-> <<>>]
File(data) == [kind |-> "file", data |-> data]

\* write_replace_text_in_dir not called
FsIdle ==
    /\ fs = [n \in {"dst", "tmp"} |-> NoFile]
    /\ w_pc = "idle"
    /\ w_result = "none"
    /\ w_content = <<>>
    /\ w_old = NoFile

\* _apply_autostart not called, nothing installed
DeskIdle ==
    /\ entry = None
    /\ start_delay_sec = 0
    /\ installed = [desktop |-> FALSE, bin |-> FALSE]
    /\ applied = "none"

\* the application with its defaults, no handler called
AppIdle == HostIdle /\ app_cfg = DefaultAppCfg /\ UiIdle /\ FsIdle /\ DeskIdle

\* start() and stop_async() not called yet, no callback called yet
InitCalls ==
    /\ tasks = <<>>
    /\ task = 0
    /\ callers = [c \in Callers |-> 0]
    /\ cb_failed = {}
    /\ last_update = None
    /\ skipped = [pending |-> FALSE, over |-> None]

\* load_config not called
NothingLoaded ==
    /\ file = [kind |-> "missing"]
    /\ loaded = None

\* lines 91-101: no task, the flag cleared
InitSupervisor ==
    /\ running = FALSE
    /\ s_pc = "none"
    /\ scanner = "none"
    /\ backoff = 1
    /\ ble_error_count = 0
    /\ raised = FALSE
    /\ sleeps = <<>>
    /\ open_sources = 0
    /\ failures = {}
    /\ levels = <<>>

\* the loop after start() and a successful open (lines 146-153)
SupervisorSteady ==
    /\ running = TRUE
    /\ s_pc = "steady"
    /\ scanner = "started"
    /\ backoff = 1
    /\ ble_error_count = 0
    /\ raised = FALSE
    /\ sleeps = <<>>
    /\ open_sources = 1
    /\ failures = {}
    /\ levels = <<>>

(* ---------------------------------------------------------------------- *)
(* The monitor with its scan loop running                                  *)
(* ---------------------------------------------------------------------- *)
Init ==
    /\ clock = Epoch
    /\ \E cfg \in Configs : InitMonitor(cfg)
    /\ on_near = TRUE
    /\ pc = "tick"
    /\ wake_at = Epoch
    /\ step = "init"
    /\ emitted = NoEvents
    /\ InitHistory
    /\ feed_idx = 1
    /\ log = <<>>
    /\ InitRace
    /\ SupervisorSteady
    /\ InitCalls
    /\ AppIdle
    /\ NothingLoaded

\* the monitor constructed with or without an on_near callback (lines 74-92)
InitOptionalNear ==
    /\ clock = Epoch
    /\ \E cfg \in Configs : InitMonitor(cfg)
    /\ on_near \in BOOLEAN
    /\ pc = "tick"
    /\ wake_at = Epoch
    /\ step = "init"
    /\ emitted = NoEvents
    /\ InitHistory
    /\ feed_idx = 1
    /\ log = <<>>
    /\ InitRace
    /\ SupervisorSteady
    /\ InitCalls
    /\ AppIdle
    /\ NothingLoaded

\* the monitor as constructed, before start()
MonitorConstructed ==
    /\ clock = Epoch
    /\ \E cfg \in Configs : InitMonitor(cfg)
    /\ on_near = TRUE
    /\ pc = "tick"
    /\ wake_at = Epoch
    /\ step = "init"
    /\ emitted = NoEvents
    /\ InitHistory
    /\ feed_idx = 1
    /\ log = <<>>
    /\ InitRace
    /\ InitSupervisor
    /\ InitCalls

\* the monitor and the application as constructed
Constructed == MonitorConstructed /\ AppIdle

InitConstructed == Constructed /\ NothingLoaded

Tick == TickBody /\ HistoryOfTick /\ UNCHANGED <<scenVars, raceVars, supVars, lifeVars,
                                                 cfgVars, appVars, obsVars>>

CooldownDone == CooldownBody /\ UNCHANGED <<supVars, lifeVars, cfgVars, appVars, obsVars,
                                            histVars, scenVars, raceVars>>

\* on_detect called for the advertisement of d with rssi r
DetectBody(d, r) ==
    /\ OnDetect(d[1], d[2], r)
    /\ fresh' = (fresh \/ Matched(config, d[1], d[2]))
    /\ adv_rssi' = IF Matched(config, d[1], d[2]) THEN Some(r) ELSE adv_rssi
    /\ UNCHANGED <<since_swap, run, qual, qual_raw, cool_until, cleared_timer>>

Detect ==
    \E d \in Advertisers, r \in AdvRssi :
        /\ DetectBody(d, r)
        /\ UNCHANGED <<scenVars, raceVars, supVars, lifeVars, cfgVars, appVars, obsVars>>

Reconfigure ==
    \E cfg \in Configs :
        UpdateConfig(cfg) /\ HistoryOfSwap /\ UNCHANGED <<scenVars, raceVars, supVars,
                                                          lifeVars, cfgVars, appVars, obsVars>>

Advance ==
    /\ Elapse(Epoch + MaxClock)
    /\ since_swap' = Min(since_swap + 1, SwapCap)
    /\ UNCHANGED <<fresh, adv_rssi, run, qual, qual_raw, cool_until, cleared_timer>>
    /\ UNCHANGED <<scenVars, raceVars, supVars, lifeVars, cfgVars, appVars, obsVars>>

Next == Tick \/ CooldownDone \/ Detect \/ Reconfigure \/ Advance

Spec == Init /\ [][Next]_vars

SpecOptionalNear == InitOptionalNear /\ [][Next]_vars

(* ---------------------------------------------------------------------- *)
(* The end-to-end scenario: a scripted feed of detections                  *)
(* ---------------------------------------------------------------------- *)
\* the clock of the scenario runs to Epoch + ScenarioEnd
ScenarioEnd == 40

\* threshold=-75, hysteresis=5, grace=15, required_near=1; the other fields
\* are the defaults of MonitorConfig
CfgScenario == MonitorConfig("AA:01", "", -75, 15, 5, 6, 8, 2, 1)

\* detections, in seconds after the monitor was started
Feed == << [at |-> 0, rssi |-> -80], [at |-> 5, rssi |-> -82],
           [at |-> 16, rssi |-> -81], [at |-> 20, rssi |-> -60] >>

InitScenario ==
    /\ clock = Epoch
    /\ InitMonitor(CfgScenario)
    /\ on_near = TRUE
    /\ pc = "tick"
    /\ wake_at \in Epoch .. Epoch + ScanInterval(CfgScenario) - 1
    /\ step = "init"
    /\ emitted = NoEvents
    /\ InitHistory
    /\ feed_idx = 1
    /\ log = <<>>
    /\ InitRace
    /\ SupervisorSteady
    /\ InitCalls
    /\ AppIdle
    /\ NothingLoaded

FeedDetect ==
    /\ feed_idx <= Len(Feed)
    /\ clock = Epoch + Feed[feed_idx].at
    /\ OnDetect("aa:01", "Phone", Some(Feed[feed_idx].rssi))
    /\ feed_idx' = feed_idx + 1
    /\ fresh' = TRUE
    /\ adv_rssi' = Some(Some(Feed[feed_idx].rssi))
    /\ UNCHANGED <<since_swap, run, qual, qual_raw, cool_until, cleared_timer, log>>
    /\ UNCHANGED <<raceVars, supVars, lifeVars, cfgVars, appVars, obsVars>>

ScenarioTick ==
    /\ TickBody
    /\ HistoryOfTick
    /\ log' = LET n == IF emitted'.near # None
                      THEN Append(log, [ev |-> "near", at |-> clock - Epoch])
                      ELSE log
              IN  IF emitted'.away # "no"
                  THEN Append(n, [ev |-> emitted'.away, at |-> clock - Epoch])
                  ELSE n
    /\ UNCHANGED <<feed_idx, raceVars, supVars, lifeVars, cfgVars, appVars, obsVars>>

ScenarioCooldownDone ==
    CooldownBody /\ UNCHANGED <<supVars, lifeVars, cfgVars, appVars, obsVars, histVars, scenVars,
                                raceVars>>

\* time passes, but not past a detection of the script that is due
ScenarioAdvance ==
    /\ Elapse(Epoch + ScenarioEnd)
    /\ feed_idx <= Len(Feed) => clock < Epoch + Feed[feed_idx].at
    /\ since_swap' = Min(since_swap + 1, SwapCap)
    /\ UNCHANGED <<fresh, adv_rssi, run, qual, qual_raw, cool_until, cleared_timer>>
    /\ UNCHANGED <<scenVars, raceVars, supVars, lifeVars, cfgVars, appVars, obsVars>>

NextScenario == ScenarioTick \/ ScenarioCooldownDone \/ FeedDetect \/ ScenarioAdvance

SpecScenario == InitScenario /\ [][NextScenario]_vars

(* ---------------------------------------------------------------------- *)
(* update_config called from the GTK thread while the scan loop runs       *)
(* ---------------------------------------------------------------------- *)
\* The loop runs in the asyncio thread (app.py 45-47); on_hide calls
\* update_config in the GTK thread (app.py 269-280) without a lock, so the
\* statements of the two interleave. on_detect runs in the loop's thread and
\* time is taken not to pass inside a tick: both are left out of the
\* interleaving, which only removes behaviours.

\* the clock of the interleaved runs stops at Epoch + RaceMaxClock
RaceMaxClock == 2

\* calls of update_config in an interleaved run
RaceMaxSwaps == 1

\* line 148: the first retry delay after the loop raised
Backoff == 1

\* the fields a tick reads and writes, except the configuration
Tracker == [last_seen_ts |-> last_seen_ts, last_rssi |-> last_rssi,
            below_since_ts |-> below_since_ts,
            near_consec_count |-> near_consec_count]

Monitor == [config |-> config, tracker |-> Tracker]

BothIdle == t_pc = "idle" /\ u_pc = "idle"

\* a statement of the tick that does not suspend the loop: it moves from
\* label to next, leaves its locals as l, the tracker as t and the events
\* emitted so far as e
TickStmt(label, next, l, t, e) ==
    /\ t_pc = label
    /\ t_pc' = next
    /\ loc' = l
    /\ last_rssi' = t.last_rssi
    /\ below_since_ts' = t.below_since_ts
    /\ near_consec_count' = t.near_consec_count
    /\ emitted' = e
    /\ step' = "stmt"
    /\ UNCHANGED <<clock, config, scan_interval, on_near, last_seen_ts, pc, wake_at>>
    /\ UNCHANGED <<supVars, lifeVars, cfgVars, appVars, obsVars, histVars, scenVars, u_pc, u_cfg,
                   swaps, snap, overlap>>

\* lines 153-155
RaceTickBegin ==
    /\ pc = "tick"
    /\ clock = wake_at
    /\ t_pc = "idle"
    /\ t_pc' = "l159"
    /\ loc' = [NoLocals EXCEPT !.now = clock, !.rssi = last_rssi]
    /\ emitted' = NoEvents
    /\ IF u_pc = "idle"
       THEN snap' = Some(Monitor) /\ overlap' = FALSE
       ELSE overlap' = TRUE /\ UNCHANGED snap
    /\ step' = "stmt"
    /\ UNCHANGED <<clock, config, scan_interval, on_near, last_seen_ts, last_rssi,
                   below_since_ts, near_consec_count, pc, wake_at>>
    /\ UNCHANGED <<supVars, lifeVars, cfgVars, appVars, obsVars, histVars, scenVars, u_pc, u_cfg, swaps>>

\* line 159
Tick159 ==
    TickStmt("l159", IF last_seen_ts # 0 THEN "l160" ELSE "l168", loc, Tracker, emitted)

\* line 160
Tick160 ==
    TickStmt("l160", "l161",
             [loc EXCEPT !.since_seen = Some(loc.now - last_seen_ts)], Tracker, emitted)

\* lines 161-162
Tick161 ==
    TickStmt("l161", IF Val(loc.since_seen) > StaleBound(config) THEN "l164" ELSE "l168",
             loc, Tracker, emitted)

\* lines 164-165
Tick164 ==
    TickStmt("l164", "l168", [loc EXCEPT !.rssi = None],
             [Tracker EXCEPT !.last_rssi = None], emitted)

\* lines 168-172
Tick168 ==
    TickStmt("l168", "l175", loc, Tracker, [emitted EXCEPT !.rssi = Some(loc.rssi)])

\* lines 175-176
Tick175 ==
    TickStmt("l175", IF last_seen_ts = 0 THEN "l232" ELSE "l180",
             [loc EXCEPT !.away = "no"], Tracker, emitted)

\* lines 180-182
Tick180 ==
    TickStmt("l180", IF loc.rssi # None THEN "l184" ELSE "l223",
             IF loc.since_seen = None
             THEN [loc EXCEPT !.since_seen = Some(loc.now - last_seen_ts)]
             ELSE loc,
             Tracker, emitted)

\* line 184
Tick184 ==
    TickStmt("l184", "l186", [loc EXCEPT !.near_trigger = NearTrigger(config)],
             Tracker, emitted)

\* lines 186-189
Tick186 ==
    TickStmt("l186", "l191", loc,
             [Tracker EXCEPT !.near_consec_count =
                  IF Val(loc.rssi) > loc.near_trigger THEN near_consec_count + 1 ELSE 0],
             emitted)

\* line 191
Tick191 ==
    TickStmt("l191", "l192", [loc EXCEPT !.need = Need(config)], Tracker, emitted)

\* line 192
Tick192 ==
    TickStmt("l192", IF on_near /\ near_consec_count >= loc.need THEN "l194" ELSE "l201",
             loc, Tracker, emitted)

\* lines 193-196
Tick194 ==
    TickStmt("l194", "l198", loc, Tracker, [emitted EXCEPT !.near = loc.rssi])

\* line 198
Tick198 ==
    TickStmt("l198", "l201", loc, [Tracker EXCEPT !.near_consec_count = loc.need],
             emitted)

\* line 201
Tick201 ==
    TickStmt("l201", IF Val(loc.rssi) <= config.rssi_threshold THEN "l202" ELSE "l206",
             loc, Tracker, emitted)

\* line 202
Tick202 ==
    TickStmt("l202", IF below_since_ts = None THEN "l203" ELSE "l210",
             loc, Tracker, emitted)

\* line 203
Tick203 ==
    TickStmt("l203", "l210", loc, [Tracker EXCEPT !.below_since_ts = Some(loc.now)],
             emitted)

\* line 206
Tick206 ==
    TickStmt("l206", IF Val(loc.rssi) > loc.near_trigger THEN "l207" ELSE "l210",
             loc, Tracker, emitted)

\* line 207
Tick207 ==
    TickStmt("l207", "l210", loc, [Tracker EXCEPT !.below_since_ts = None], emitted)

\* line 210
Tick210 ==
    TickStmt("l210", IF below_since_ts # None THEN "l211" ELSE "l232",
             loc, Tracker, emitted)

\* line 211, the timer still set
Tick211 ==
    /\ below_since_ts # None
    /\ TickStmt("l211", "l212",
                [loc EXCEPT !.weak_duration = loc.now - Val(below_since_ts)],
                Tracker, emitted)

\* line 211, the timer reset since line 210: now - None raises TypeError, the
\* loop is left through lines 244-262 and restarted after the retry delay
Tick211Raises ==
    /\ t_pc = "l211"
    /\ below_since_ts = None
    /\ t_pc' = "idle"
    /\ pc' = "tick"
    /\ wake_at' = clock + Backoff
    /\ loc' = NoLocals
    /\ step' = "tick"
    /\ UNCHANGED <<clock, config, scan_interval, on_near, last_seen_ts, last_rssi,
                   below_since_ts, near_consec_count, emitted>>
    /\ UNCHANGED <<supVars, lifeVars, cfgVars, appVars, obsVars, histVars, scenVars, u_pc, u_cfg,
                   swaps, snap, overlap>>

\* lines 212-219
Tick212 ==
    TickStmt("l212", "l232",
             IF loc.weak_duration >= config.grace_period_sec
             THEN [loc EXCEPT !.away = "weak"]
             ELSE loc,
             Tracker, emitted)

\* line 223
Tick223 ==
    TickStmt("l223", "l224", loc, [Tracker EXCEPT !.near_consec_count = 0], emitted)

\* lines 224-230
Tick224 ==
    TickStmt("l224", "l232",
             IF Val(loc.since_seen) >= UnseenRequired(config)
             THEN [loc EXCEPT !.away = "silent"]
             ELSE loc,
             Tracker, emitted)

\* line 232
Tick232 ==
    TickStmt("l232", IF loc.away # "no" THEN "l234" ELSE "l242", loc, Tracker, emitted)

\* lines 233-236
Tick234 ==
    TickStmt("l234", "l238", loc, Tracker, [emitted EXCEPT !.away = loc.away])

\* line 238
Tick238 ==
    TickStmt("l238", "l239", loc, [Tracker EXCEPT !.below_since_ts = None], emitted)

\* line 239: the loop is suspended in the cooldown sleep
Tick239 ==
    /\ t_pc = "l239"
    /\ t_pc' = "idle"
    /\ pc' = "cooldown"
    /\ wake_at' = clock + Cooldown(config)
    /\ loc' = NoLocals
    /\ step' = "tick"
    /\ UNCHANGED <<clock, config, scan_interval, on_near, last_seen_ts, last_rssi,
                   below_since_ts, near_consec_count, emitted>>
    /\ UNCHANGED <<supVars, lifeVars, cfgVars, appVars, obsVars, histVars, scenVars, u_pc, u_cfg,
                   swaps, snap, overlap>>

\* line 242
Tick242 ==
    /\ t_pc = "l242"
    /\ t_pc' = "l243"
    /\ scan_interval' = ScanInterval(config)
    /\ step' = "stmt"
    /\ UNCHANGED <<clock, config, on_near, last_seen_ts, last_rssi, below_since_ts,
                   near_consec_count, pc, wake_at, emitted>>
    /\ UNCHANGED <<supVars, lifeVars, cfgVars, appVars, obsVars, histVars, scenVars, loc, u_pc,
                   u_cfg, swaps, snap, overlap>>

\* line 243: the loop is suspended in the sleep between two ticks
Tick243 ==
    /\ t_pc = "l243"
    /\ t_pc' = "idle"
    /\ pc' = "tick"
    /\ wake_at' = clock + scan_interval
    /\ loc' = NoLocals
    /\ step' = "tick"
    /\ UNCHANGED <<clock, config, scan_interval, on_near, last_seen_ts, last_rssi,
                   below_since_ts, near_consec_count, emitted>>
    /\ UNCHANGED <<supVars, lifeVars, cfgVars, appVars, obsVars, histVars, scenVars, u_pc, u_cfg,
                   swaps, snap, overlap>>

\* a statement of update_config
UpdateStmt(label, next) ==
    /\ u_pc = label
    /\ u_pc' = next
    /\ u_cfg' = IF next = "idle" THEN None ELSE u_cfg
    /\ step' = IF next = "idle" THEN "update_config" ELSE "stmt"
    /\ UNCHANGED <<clock, on_near, pc, wake_at, emitted>>
    /\ UNCHANGED <<supVars, lifeVars, cfgVars, appVars, obsVars, histVars, scenVars, t_pc, loc,
                   swaps, snap, overlap>>

\* the call of line 280 of app.py
RaceUpdateBegin ==
    \E cfg \in Configs :
        /\ u_pc = "idle"
        /\ swaps < RaceMaxSwaps
        /\ u_pc' = "l287"
        /\ u_cfg' = Some(cfg)
        /\ swaps' = swaps + 1
        /\ IF t_pc = "idle"
           THEN snap' = Some(Monitor) /\ overlap' = FALSE
           ELSE overlap' = TRUE /\ UNCHANGED snap
        /\ step' = "stmt"
        /\ UNCHANGED <<clock, config, scan_interval, on_near, last_seen_ts, last_rssi,
                       below_since_ts, near_consec_count, pc, wake_at, emitted>>
        /\ UNCHANGED <<supVars, lifeVars, cfgVars, appVars, obsVars, histVars, scenVars, t_pc, loc>>

\* line 287
Update287 ==
    /\ UpdateStmt("l287", "l289")
    /\ config' = Val(u_cfg)
    /\ UNCHANGED <<scan_interval, last_seen_ts, last_rssi, below_since_ts,
                   near_consec_count>>

\* line 289
Update289 ==
    /\ UpdateStmt("l289", "l290")
    /\ last_seen_ts' = 0
    /\ UNCHANGED <<config, scan_interval, last_rssi, below_since_ts, near_consec_count>>

\* line 290
Update290 ==
    /\ UpdateStmt("l290", "l291")
    /\ last_rssi' = None
    /\ UNCHANGED <<config, scan_interval, last_seen_ts, below_since_ts,
                   near_consec_count>>

\* line 291
Update291 ==
    /\ UpdateStmt("l291", "l292")
    /\ below_since_ts' = None
    /\ UNCHANGED <<config, scan_interval, last_seen_ts, last_rssi, near_consec_count>>

\* line 292
Update292 ==
    /\ UpdateStmt("l292", "l294")
    /\ near_consec_count' = 0
    /\ UNCHANGED <<config, scan_interval, last_seen_ts, last_rssi, below_since_ts>>

\* line 294: update_config returns
Update294 ==
    /\ UpdateStmt("l294", "idle")
    /\ scan_interval' = ScanInterval(config)
    /\ UNCHANGED <<config, last_seen_ts, last_rssi, below_since_ts, near_consec_count>>

\* the loop's thread runs on_detect between two ticks
RaceDetect ==
    /\ BothIdle
    /\ \E d \in Advertisers, r \in AdvRssi : OnDetect(d[1], d[2], r)
    /\ UNCHANGED <<supVars, lifeVars, cfgVars, appVars, obsVars, histVars, scenVars, raceVars>>

RaceCooldownDone ==
    /\ BothIdle
    /\ CooldownBody
    /\ UNCHANGED <<supVars, lifeVars, cfgVars, appVars, obsVars, histVars, scenVars, raceVars>>

RaceAdvance ==
    /\ BothIdle
    /\ Elapse(Epoch + RaceMaxClock)
    /\ UNCHANGED <<supVars, lifeVars, cfgVars, appVars, obsVars, histVars, scenVars, raceVars>>

RaceTick ==
    \/ RaceTickBegin \/ Tick159 \/ Tick160 \/ Tick161 \/ Tick164 \/ Tick168
    \/ Tick175 \/ Tick180 \/ Tick184 \/ Tick186 \/ Tick191 \/ Tick192 \/ Tick194
    \/ Tick198 \/ Tick201 \/ Tick202 \/ Tick203 \/ Tick206 \/ Tick207 \/ Tick210
    \/ Tick211 \/ Tick211Raises \/ Tick212 \/ Tick223 \/ Tick224 \/ Tick232
    \/ Tick234 \/ Tick238 \/ Tick239 \/ Tick242 \/ Tick243

RaceUpdate ==
    \/ RaceUpdateBegin \/ Update287 \/ Update289 \/ Update290 \/ Update291
    \/ Update292 \/ Update294

NextRace == RaceTick \/ RaceUpdate \/ RaceDetect \/ RaceCooldownDone \/ RaceAdvance

SpecRace == Init /\ [][NextRace]_vars

(* ---------------------------------------------------------------------- *)
(* _scan_loop: the retry loop around the scanner; start and stop_async     *)
(* ---------------------------------------------------------------------- *)
\* What an iteration of the steady loop evaluates is the subject of the
\* specifications above; here an iteration only returns or raises.

\* failures after which no further one is injected before a successful open
MaxErrors == 7

\* line 261: the ceiling of the retry delay
BackoffCeiling == 30

NextBackoffUncapped(b) == b * 2

\* line 261
NextBackoff(b) == Min(b * 2, BackoffCeiling)

AfterFailureFatal == "done"

\* line 262: continue
AfterFailure == "top"

StopsOnCleanExit(error) == ~error

\* lines 244-250: the finally clause runs however the steady loop was left
StopsOnExit(error) == TRUE

\* lines 264-271
Start ==
    /\ ~running
    /\ s_pc \in {"none", "done"}
    /\ running' = TRUE
    /\ s_pc' = "begin"
    /\ UNCHANGED <<scanner, backoff, ble_error_count, raised, sleeps, open_sources,
                   failures>>
    /\ UNCHANGED levels
    /\ UNCHANGED <<coreVars, histVars, scenVars, raceVars, lifeVars, cfgVars, appVars, obsVars>>

\* lines 273-277; the await of line 280 ends when the loop has exited
StopRequest ==
    /\ running
    /\ running' = FALSE
    /\ UNCHANGED <<s_pc, scanner, backoff, ble_error_count, raised, sleeps,
                   open_sources, failures>>
    /\ UNCHANGED levels
    /\ UNCHANGED <<coreVars, histVars, scenVars, raceVars, lifeVars, cfgVars, appVars, obsVars>>

\* lines 108-112
LoopBegin ==
    /\ s_pc = "begin"
    /\ backoff' = Backoff
    /\ sleeps' = <<>>
    /\ s_pc' = "top"
    /\ UNCHANGED <<running, scanner, ble_error_count, raised, open_sources, failures>>
    /\ UNCHANGED levels
    /\ UNCHANGED <<coreVars, histVars, scenVars, raceVars, lifeVars, cfgVars, appVars, obsVars>>

\* lines 113-114, and line 263 when the flag is cleared
LoopTop ==
    /\ s_pc = "top"
    /\ IF running
       THEN s_pc' = "open" /\ scanner' = "none"
       ELSE s_pc' = "done" /\ UNCHANGED scanner
    /\ UNCHANGED <<running, backoff, ble_error_count, raised, sleeps, open_sources,
                   failures>>
    /\ UNCHANGED levels
    /\ UNCHANGED <<coreVars, histVars, scenVars, raceVars, lifeVars, cfgVars, appVars, obsVars>>

\* lines 116-146 raising: BleakScanner() (no scanner), or
\* register_detection_callback / start() (a scanner that was not started)
OpenFails ==
    /\ s_pc = "open"
    /\ ble_error_count < MaxErrors
    /\ scanner' \in {"none", "created"}
    /\ s_pc' = "failed"
    /\ failures' = failures \cup {"open"}
    /\ UNCHANGED <<running, backoff, ble_error_count, raised, sleeps, open_sources>>
    /\ UNCHANGED levels
    /\ UNCHANGED <<coreVars, histVars, scenVars, raceVars, lifeVars, cfgVars, appVars, obsVars>>

\* lines 116-150
OpenSucceeds ==
    /\ s_pc = "open"
    /\ scanner' = "started"
    /\ open_sources' = open_sources + 1
    /\ backoff' = Backoff
    /\ ble_error_count' = 0
    /\ sleeps' = <<>>
    /\ levels' = <<>>
    /\ s_pc' = "steady"
    /\ UNCHANGED <<running, raised, failures>>
    /\ UNCHANGED <<coreVars, histVars, scenVars, raceVars, lifeVars, cfgVars, appVars, obsVars>>

\* lines 153-243 with the flag set: the iteration, up to its first sleep,
\* which is the cooldown of line 239 if the tick emitted Away
SteadyIteration ==
    /\ s_pc = "steady"
    /\ running
    /\ s_pc' \in {"sleep", "cooldown"}
    /\ UNCHANGED <<running, scanner, backoff, ble_error_count, raised, sleeps,
                   open_sources, failures>>
    /\ UNCHANGED levels
    /\ UNCHANGED <<coreVars, histVars, scenVars, raceVars, lifeVars, cfgVars, appVars, obsVars>>

\* lines 239-243: the cooldown is over, the scan-interval sleep follows
SteadyCooldownDone ==
    /\ s_pc = "cooldown"
    /\ s_pc' = "sleep"
    /\ UNCHANGED <<running, scanner, backoff, ble_error_count, raised, sleeps,
                   open_sources, failures>>
    /\ UNCHANGED levels
    /\ UNCHANGED <<coreVars, histVars, scenVars, raceVars, lifeVars, cfgVars, appVars, obsVars>>

\* line 243: the sleep returns
SteadySleepDone ==
    /\ s_pc = "sleep"
    /\ s_pc' = "steady"
    /\ UNCHANGED <<running, scanner, backoff, ble_error_count, raised, sleeps,
                   open_sources, failures>>
    /\ UNCHANGED levels
    /\ UNCHANGED <<coreVars, histVars, scenVars, raceVars, lifeVars, cfgVars, appVars, obsVars>>

\* line 153 with the flag cleared
SteadyExit ==
    /\ s_pc = "steady"
    /\ ~running
    /\ raised' = FALSE
    /\ s_pc' = "cleanup"
    /\ UNCHANGED <<running, scanner, backoff, ble_error_count, sleeps, open_sources,
                   failures>>
    /\ UNCHANGED levels
    /\ UNCHANGED <<coreVars, histVars, scenVars, raceVars, lifeVars, cfgVars, appVars, obsVars>>

\* lines 153-243 raising
SteadyRaises ==
    /\ s_pc \in {"steady", "sleep", "cooldown"}
    /\ ble_error_count < MaxErrors
    /\ raised' = TRUE
    /\ s_pc' = "cleanup"
    /\ failures' = failures \cup {"run"}
    /\ UNCHANGED <<running, scanner, backoff, ble_error_count, sleeps, open_sources>>
    /\ UNCHANGED levels
    /\ UNCHANGED <<coreVars, histVars, scenVars, raceVars, lifeVars, cfgVars, appVars, obsVars>>

\* lines 244-250: scanner.stop() is called; if it raises, that is logged only
Cleanup ==
    /\ s_pc = "cleanup"
    /\ IF StopsOnExit(raised)
       THEN /\ scanner' = "stopped"
            /\ open_sources' = open_sources - 1
            /\ failures' \in {failures, failures \cup {"stop"}}
       ELSE UNCHANGED <<scanner, open_sources, failures>>
    /\ s_pc' = IF raised THEN "failed" ELSE "top"
    /\ UNCHANGED <<running, backoff, ble_error_count, raised, sleeps>>
    /\ UNCHANGED levels
    /\ UNCHANGED <<coreVars, histVars, scenVars, raceVars, lifeVars, cfgVars, appVars, obsVars>>

\* line 254: failures reported as warnings before they go to the debug log
WarnLimit == 3

LevelAlwaysWarning(count) == "warning"

\* lines 254-259
Level(count) == IF count <= WarnLimit THEN "warning" ELSE "debug"

\* lines 251-259
Failed ==
    /\ s_pc = "failed"
    /\ ble_error_count' = ble_error_count + 1
    /\ levels' = Append(levels, Level(ble_error_count + 1))
    /\ raised' = FALSE
    /\ s_pc' = "backoff"
    /\ UNCHANGED <<running, scanner, backoff, sleeps, open_sources, failures>>
    /\ UNCHANGED <<coreVars, histVars, scenVars, raceVars, lifeVars, cfgVars, appVars, obsVars>>

\* lines 260-262: the retry delay has passed
BackoffDone ==
    /\ s_pc = "backoff"
    /\ sleeps' = Append(sleeps, backoff)
    /\ backoff' = NextBackoff(backoff)
    /\ s_pc' = AfterFailure
    /\ UNCHANGED <<running, scanner, ble_error_count, raised, open_sources, failures>>
    /\ UNCHANGED levels
    /\ UNCHANGED <<coreVars, histVars, scenVars, raceVars, lifeVars, cfgVars, appVars, obsVars>>

\* the steps of the loop's task
LoopStep ==
    \/ LoopBegin \/ LoopTop \/ OpenFails \/ OpenSucceeds \/ SteadyIteration
    \/ SteadyCooldownDone \/ SteadySleepDone \/ SteadyExit \/ SteadyRaises \/ Cleanup \/ Failed
    \/ BackoffDone

NextSupervisor == Start \/ StopRequest \/ LoopStep

SpecSupervisor == InitConstructed /\ [][NextSupervisor]_vars

\* the event loop runs the task whenever it can continue: sleeps and the
\* calls of the scanner return
SpecSupervisorFair == SpecSupervisor /\ WF_vars(LoopStep)

(* ---------------------------------------------------------------------- *)
(* start() and stop_async() called in any order on one monitor             *)
(* ---------------------------------------------------------------------- *)
\* Everything runs on the event loop's thread: start() is atomic, stop_async
\* is atomic up to its await, a scan-loop task is atomic between two awaits.
\* Of a task only the places matter where it tests self._running:
\*   "top"     about to test the flag at line 113 (a new task starts there)
\*   "steady"  about to test the flag at line 153, its scanner started
\*   "sleep"   in a sleep of the steady loop (lines 239, 243), scanner started
\*   "backoff" in the sleep of line 260, no scanner started
\*   "done"    returned

\* tasks that start() creates at most
MaxTasks == 2

StartAlways(flag) == FALSE

\* line 266
StartReturnsEarly(flag) == flag

\* a call that leaves the tracker and the clock alone
Called(name) ==
    /\ step' = name
    /\ emitted' = NoEvents
    /\ UNCHANGED <<clock, config, scan_interval, on_near, last_seen_ts, last_rssi,
                   below_since_ts, near_consec_count, pc, wake_at>>
    /\ UNCHANGED <<s_pc, scanner, backoff, ble_error_count, raised, sleeps,
                   open_sources, failures, levels>>
    /\ UNCHANGED <<histVars, scenVars, raceVars, obsVars, cfgVars, appVars>>

\* lines 264-271
StartCall ==
    /\ StartReturnsEarly(running) \/ Len(tasks) < MaxTasks
    /\ IF StartReturnsEarly(running)
       THEN UNCHANGED <<running, tasks, task>>
       ELSE /\ running' = TRUE
            /\ tasks' = Append(tasks, "top")
            /\ task' = Len(tasks) + 1
    /\ UNCHANGED callers
    /\ Called("start")

\* lines 273-280, up to the await
StopAsyncCall(c) ==
    /\ callers[c] = 0
    /\ IF ~running
       THEN /\ UNCHANGED <<running, callers>>
            /\ Called("stop_async returns")
       ELSE /\ running' = FALSE
            /\ IF task # 0
               THEN /\ callers' = [callers EXCEPT ![c] = task]
                    /\ Called("stop_async awaits")
               ELSE /\ UNCHANGED callers
                    /\ Called("stop_async returns")
    /\ UNCHANGED <<tasks, task>>

\* lines 280-283: the awaited task has returned
StopAsyncReturn(c) ==
    /\ callers[c] # 0
    /\ tasks[callers[c]] = "done"
    /\ task' = 0
    /\ callers' = [callers EXCEPT ![c] = 0]
    /\ UNCHANGED <<running, tasks>>
    /\ Called("stop_async returns")

\* one task of _scan_loop running up to its next await or its return
ScanLoopStep(i) ==
    /\ i \in 1 .. Len(tasks)
    /\ \E next \in CASE tasks[i] = "top" ->
                          IF running THEN {"steady", "backoff"} ELSE {"done"}
                     [] tasks[i] = "steady" ->
                          IF running THEN {"sleep", "backoff"} ELSE {"top"}
                     [] tasks[i] = "sleep" -> {"steady", "backoff"}
                     [] tasks[i] = "backoff" -> {"top"}
                     [] OTHER -> {} :
          tasks' = [tasks EXCEPT ![i] = next]
    /\ UNCHANGED <<running, task, callers>>
    /\ Called("scan_loop")

NextLifecycle ==
    \/ StartCall
    \/ \E c \in Callers : StopAsyncCall(c)
    \/ \E c \in Callers : StopAsyncReturn(c)
    \/ \E i \in 1 .. MaxTasks : ScanLoopStep(i)
    \/ Reconfigure

SpecLifecycle == InitConstructed /\ [][NextLifecycle]_vars

(* ---------------------------------------------------------------------- *)
(* Ticks whose callbacks may raise                                          *)
(* ---------------------------------------------------------------------- *)
Callbacks == {"on_rssi", "on_near", "on_away"}

CaughtExceptOnNear(cb) == cb # "on_near"

\* lines 169-172, 193-196, 233-236: each call sits in try / except Exception
Caught(cb) == TRUE

\* the callbacks a tick with this outcome calls (all three are registered)
CalledBy(o) ==
    {"on_rssi"} \cup (IF o.events.near # None THEN {"on_near"} ELSE {})
                \cup (IF o.events.away # "no" THEN {"on_away"} ELSE {})

\* lines 154-243, the callbacks in failing raising when they are called. An
\* exception that is not caught leaves the steady loop at the call: the
\* statements before the call have run, those after it have not.
TickWithCallbacks ==
    /\ s_pc = "steady"
    /\ running
    /\ \E failing \in SUBSET Callbacks :
        LET o == TickOutcome(config, last_seen_ts, last_rssi, below_since_ts,
                             near_consec_count, clock, on_near)
            uncaught == {cb \in CalledBy(o) \cap failing : ~Caught(cb)}
            seen == last_seen_ts # 0 /\ o.rssi # None
        IN  IF uncaught = {}
            THEN /\ TickBody
                 /\ HistoryOfTick
                 /\ cb_failed' = CalledBy(o) \cap failing
                 /\ last_update' = o.events.rssi
                 /\ UNCHANGED <<scenVars, raceVars, supVars, lifeVars, cfgVars, appVars, skipped>>
            ELSE /\ pc = "tick"
                 /\ clock = wake_at
                 /\ last_rssi' = o.rssi
                 /\ last_update' = o.events.rssi
                 /\ cb_failed' = uncaught
                 /\ near_consec_count' =
                        IF "on_rssi" \notin uncaught /\ seen
                        THEN (IF "on_near" \in uncaught
                              THEN NearCount(near_consec_count, o.rssi, config)
                              ELSE o.count)
                        ELSE near_consec_count
                 /\ below_since_ts' =
                        IF uncaught = {"on_away"} /\ seen
                        THEN BelowSince(below_since_ts, o.rssi, clock, config)
                        ELSE below_since_ts
                 /\ emitted' = [o.events EXCEPT
                        !.near = IF "on_rssi" \in uncaught THEN None ELSE @,
                        !.away = IF uncaught = {"on_away"} THEN @ ELSE "no"]
                 /\ step' = "tick"
                 /\ pc' = "left"
                 /\ s_pc' = "cleanup"
                 /\ raised' = TRUE
                 /\ failures' = failures \cup {"run"}
                 /\ UNCHANGED <<clock, config, scan_interval, on_near, last_seen_ts,
                                wake_at>>
                 /\ UNCHANGED <<running, scanner, backoff, ble_error_count, sleeps,
                                open_sources, levels>>
                 /\ UNCHANGED <<histVars, scenVars, raceVars, lifeVars, cfgVars, appVars, skipped>>

NextObserved == TickWithCallbacks \/ CooldownDone \/ Detect \/ Advance

\* the configurations the monitor is constructed with here
ObservedConfigs == {CfgQuick, CfgByName}

InitObserved == Init /\ config \in ObservedConfigs

SpecObserved == InitObserved /\ [][NextObserved]_vars

(* ---------------------------------------------------------------------- *)
(* The steady loop fails and the scanner cannot be opened any more         *)
(* ---------------------------------------------------------------------- *)
\* consecutive failures that are counted and logged one by one during an
\* outage; the failures after them are not told apart
OutageErrors == 2

\* lines 154-243 while the loop is in its steady loop; on_rssi is given the
\* sample (lines 168-170)
TickObserved ==
    /\ s_pc = "steady"
    /\ running
    /\ TickBody
    /\ HistoryOfTick
    /\ last_update' = emitted'.rssi
    /\ UNCHANGED <<cb_failed, skipped>>
    /\ UNCHANGED <<scenVars, raceVars, supVars, lifeVars, cfgVars, appVars>>

\* an advertisement reaches on_detect while the scanner is started
DetectWhileOpen == scanner = "started" /\ Detect

\* an iteration of the steady loop raises outside the callbacks, and from then
\* on the scanner cannot be opened
OutageBegins ==
    /\ s_pc = "steady"
    /\ pc = "tick"
    /\ clock = wake_at
    /\ SteadyRaises

\* lines 251-259 for a failure that is counted
FailedCounted == ble_error_count < OutageErrors /\ Failed

\* lines 251-259 for a later failure: the counter only grows further and the
\* report goes to the debug log
FailedAgain ==
    /\ s_pc = "failed"
    /\ ble_error_count >= OutageErrors
    /\ raised' = FALSE
    /\ s_pc' = "backoff"
    /\ UNCHANGED <<running, scanner, backoff, ble_error_count, sleeps, open_sources,
                   failures, levels>>
    /\ UNCHANGED <<coreVars, histVars, scenVars, raceVars, lifeVars, cfgVars, appVars, obsVars>>

\* lines 260-262 after a counted failure
BackoffDoneCounted == Len(sleeps) < OutageErrors /\ BackoffDone

\* lines 260-262 after a later failure: the delay is not recorded
BackoffDoneAgain ==
    /\ s_pc = "backoff"
    /\ Len(sleeps) >= OutageErrors
    /\ backoff' = NextBackoff(backoff)
    /\ s_pc' = AfterFailure
    /\ UNCHANGED <<running, scanner, ble_error_count, raised, sleeps, open_sources,
                   failures, levels>>
    /\ UNCHANGED <<coreVars, histVars, scenVars, raceVars, lifeVars, cfgVars, appVars, obsVars>>

\* the loop while the scanner cannot be opened
OutageStep ==
    \/ Cleanup \/ FailedCounted \/ FailedAgain \/ BackoffDoneCounted
    \/ BackoffDoneAgain \/ LoopTop \/ OpenFails

NextOutage ==
    \/ TickObserved
    \/ CooldownDone
    \/ DetectWhileOpen
    \/ Advance
    \/ OutageBegins
    \/ OutageStep

InitOutage == Init /\ config = CfgQuick

SpecOutage == InitOutage /\ [][NextOutage]_vars

\* the event loop runs the scan loop whenever it can continue
SpecOutageFair ==
    SpecOutage /\ WF_vars(OutageStep) /\ WF_vars(TickObserved \/ CooldownDone)

(* ---------------------------------------------------------------------- *)
(* Several detections between two ticks                                    *)
(* ---------------------------------------------------------------------- *)
\* on_detect, remembering which detection a matching one replaces before a
\* tick has read it
DetectBetweenTicks ==
    \E d \in Advertisers, r \in AdvRssi :
        /\ DetectBody(d, r)
        /\ skipped' = IF ~Matched(config, d[1], d[2]) THEN skipped
                      ELSE [pending |-> TRUE,
                            over |-> IF skipped.pending THEN adv_rssi ELSE None]
        /\ UNCHANGED <<cb_failed, last_update>>
        /\ UNCHANGED <<scenVars, raceVars, supVars, lifeVars, cfgVars, appVars>>

\* the tick reads the pair that on_detect left
TickAfterDetections ==
    /\ TickBody
    /\ HistoryOfTick
    /\ skipped' = [pending |-> FALSE,
                   over |-> IF skipped.pending THEN skipped.over ELSE None]
    /\ UNCHANGED <<cb_failed, last_update>>
    /\ UNCHANGED <<scenVars, raceVars, supVars, lifeVars, cfgVars, appVars>>

NextCoalesce == TickAfterDetections \/ CooldownDone \/ DetectBetweenTicks \/ Advance

SpecCoalesce == InitObserved /\ [][NextCoalesce]_vars

(* ---------------------------------------------------------------------- *)
(* config.load_config                                                      *)
(* ---------------------------------------------------------------------- *)
\* A value of the YAML file is an int, a float, a string, null, a bool or a
\* list. Finite floats are held in tenths: [t |-> "float", tenths |-> 25] is 2.5.
YamlInts == {-200, -121, -120, -75, -20, -19, -1, 0, 1, 15, 600, 601}
YamlFloats == {-1209, -1201, -199, -9, 0, 9, 10, 25, 6009}
YamlStrings == {"abc", "", "2", "2.5", "nan", "inf"}

Absent == [t |-> "absent"]

YamlValues ==
    {[t |-> "int", n |-> n] : n \in YamlInts}
    \cup {[t |-> "float", tenths |-> n] : n \in YamlFloats}
    \cup {[t |-> "nan"], [t |-> "inf", sign |-> 1], [t |-> "inf", sign |-> -1]}
    \cup {[t |-> "str", s |-> x] : x \in YamlStrings}
    \cup {[t |-> "null"], [t |-> "bool", b |-> TRUE], [t |-> "bool", b |-> FALSE],
          [t |-> "list"]}

\* what the file can hold: nothing (no file), text that is not YAML, YAML that
\* is not a mapping, a mapping with a key Config does not have, or a mapping
\* that gives some of the three keys
FileContents ==
    {[kind |-> k] : k \in {"missing", "unparsable", "not_mapping", "unknown_key"}}
    \cup {[kind |-> "mapping", scan_interval_sec |-> a, rssi_threshold |-> b,
           grace_period_sec |-> c] :
            a \in YamlValues \cup {Absent}, b \in YamlValues \cup {Absent},
            c \in YamlValues \cup {Absent}}

\* config.py lines 91, 92 and 102: the defaults of Config, as YAML values
DefaultValues ==
    [scan_interval_sec |-> [t |-> "float", tenths |-> 20],
     rssi_threshold |-> [t |-> "int", n |-> -75],
     grace_period_sec |-> [t |-> "int", n |-> 15]]

\* DEFAULT_CONFIG as load_config returns it
DefaultConfig ==
    [scan_interval_sec |-> [k |-> "num", v |-> 20], rssi_threshold |-> -75,
     grace_period_sec |-> 15]

\* int() of a finite float truncates toward zero
Trunc(tenths) == IF tenths >= 0 THEN tenths \div 10 ELSE -((-tenths) \div 10)

\* float(x): None stands for an exception
ToFloat(x) ==
    CASE x.t = "int" -> Some([k |-> "num", v |-> x.n * 10])
      [] x.t = "float" -> Some([k |-> "num", v |-> x.tenths])
      [] x.t = "nan" -> Some([k |-> "nan"])
      [] x.t = "inf" -> Some([k |-> "inf", v |-> x.sign])
      [] x.t = "bool" -> Some([k |-> "num", v |-> IF x.b THEN 10 ELSE 0])
      [] x.t = "str" -> (CASE x.s = "2" -> Some([k |-> "num", v |-> 20])
                           [] x.s = "2.5" -> Some([k |-> "num", v |-> 25])
                           [] x.s = "nan" -> Some([k |-> "nan"])
                           [] x.s = "inf" -> Some([k |-> "inf", v |-> 1])
                           [] OTHER -> None)
      [] OTHER -> None

\* int(x): None stands for an exception
ToInt(x) ==
    CASE x.t = "int" -> Some(x.n)
      [] x.t = "float" -> Some(Trunc(x.tenths))
      [] x.t = "bool" -> Some(IF x.b THEN 1 ELSE 0)
      [] x.t = "str" -> (IF x.s = "2" THEN Some(2) ELSE None)
      [] OTHER -> None

\* max(1.0, f): max returns its first argument unless the second is greater
MaxWithOne(f) ==
    CASE f.k = "num" -> [k |-> "num", v |-> Max(10, f.v)]
      [] f.k = "inf" -> (IF f.v > 0 THEN [k |-> "inf"] ELSE [k |-> "num", v |-> 10])
      [] OTHER -> [k |-> "num", v |-> 10]

ClampThresholdFromAbove(n) == Min(-20, n)

\* config.py line 188
ClampThreshold(n) == Max(-120, Min(-20, n))

\* config.py line 192
ClampGrace(n) == Max(0, Min(600, n))

\* config.py lines 159-218
load_config(f) ==
    IF f.kind = "missing" THEN DefaultConfig
    ELSE IF f.kind \in {"unparsable", "not_mapping", "unknown_key"} THEN DefaultConfig
    ELSE LET given(key) == IF f[key] = Absent THEN DefaultValues[key] ELSE f[key]
             scan == ToFloat(given("scan_interval_sec"))
             thr == ToInt(given("rssi_threshold"))
             grace == ToInt(given("grace_period_sec"))
         IN  [scan_interval_sec |-> IF scan = None THEN [k |-> "num", v |-> 20]
                                    ELSE MaxWithOne(Val(scan)),
              rssi_threshold |-> IF thr = None THEN -75 ELSE ClampThreshold(Val(thr)),
              grace_period_sec |-> IF grace = None THEN 15 ELSE ClampGrace(Val(grace))]

\* the file holds anything; nothing has been loaded
InitLoader ==
    /\ Constructed
    /\ config = CfgQuick
    /\ file \in FileContents
    /\ loaded = None

LoadConfig ==
    /\ loaded = None
    /\ loaded' = Some(load_config(file))
    /\ UNCHANGED file
    /\ UNCHANGED <<coreVars, histVars, scenVars, raceVars, supVars, lifeVars, obsVars,
                   appVars>>

NextLoader == LoadConfig

SpecLoader == InitLoader /\ [][NextLoader]_vars

(* ---------------------------------------------------------------------- *)
(* The device disappears while the scanner may fail                        *)
(* ---------------------------------------------------------------------- *)
\* lines 260-262: the backoff sleep takes its delay (the model's clock stops
\* at its horizon) and the loop continues
BackoffSlept ==
    /\ s_pc = "backoff"
    /\ clock' = Min(clock + backoff, Epoch + MaxClock)
    /\ sleeps' = IF Len(sleeps) < OutageErrors THEN Append(sleeps, backoff) ELSE sleeps
    /\ backoff' = NextBackoff(backoff)
    /\ s_pc' = AfterFailure
    /\ step' = "advance"
    /\ emitted' = NoEvents
    /\ since_swap' = Min(since_swap + (clock' - clock), SwapCap)
    /\ UNCHANGED <<config, scan_interval, on_near, last_seen_ts, last_rssi,
                   below_since_ts, near_consec_count, pc, wake_at>>
    /\ UNCHANGED <<fresh, adv_rssi, run, qual, qual_raw, cool_until, cleared_timer>>
    /\ UNCHANGED <<running, scanner, ble_error_count, raised, open_sources, failures,
                   levels>>
    /\ UNCHANGED <<scenVars, raceVars, lifeVars, cfgVars, appVars, obsVars>>

\* the loop while the scanner cannot be opened, with the time its sleeps take
DisappearStep ==
    \/ Cleanup \/ FailedCounted \/ FailedAgain \/ BackoffSlept \/ LoopTop \/ OpenFails

NextDisappear ==
    \/ TickObserved
    \/ CooldownDone
    \/ DetectWhileOpen
    \/ Advance
    \/ OutageBegins
    \/ DisappearStep

SpecDisappear == InitOutage /\ [][NextDisappear]_vars

\* the event loop runs the scan loop whenever it can continue, and time passes
SpecDisappearFair ==
    /\ SpecDisappear
    /\ WF_vars(DisappearStep)
    /\ WF_vars(TickObserved \/ CooldownDone)
    /\ WF_vars(Advance)

(* ---------------------------------------------------------------------- *)
(* stop_async while the scan loop is suspended                             *)
(* ---------------------------------------------------------------------- *)
LoopTestOnce(flag) == TRUE

\* line 153: while self._running
LoopTest(flag) == flag

\* lines 153-243: the sleep of line 243 has returned, the flag is tested and
\* the tick runs
StopTick ==
    /\ s_pc = "steady"
    /\ LoopTest(running)
    /\ TickBody
    /\ HistoryOfTick
    /\ last_update' = emitted'.rssi
    /\ UNCHANGED <<cb_failed, skipped>>
    /\ UNCHANGED <<scenVars, raceVars, supVars, lifeVars, cfgVars, appVars>>

\* line 153 with the flag cleared, after the sleep of line 243 has returned
StopSeen ==
    /\ pc = "tick"
    /\ clock = wake_at
    /\ SteadyExit

\* lines 116-153: scanner.start() returns; the steady loop is entered at its
\* test
Reopened ==
    /\ s_pc = "open"
    /\ scanner' = "started"
    /\ open_sources' = open_sources + 1
    /\ backoff' = Backoff
    /\ ble_error_count' = 0
    /\ sleeps' = <<>>
    /\ levels' = <<>>
    /\ s_pc' = "steady"
    /\ pc' = "tick"
    /\ wake_at' = clock
    /\ step' = "open"
    /\ emitted' = NoEvents
    /\ UNCHANGED <<running, raised, failures>>
    /\ UNCHANGED <<clock, config, scan_interval, on_near, last_seen_ts, last_rssi,
                   below_since_ts, near_consec_count>>
    /\ UNCHANGED <<histVars, scenVars, raceVars, lifeVars, cfgVars, appVars, obsVars>>

\* an iteration of the steady loop raises, once in a run of the model
StopLoopRaises == "run" \notin failures /\ OutageBegins

\* the loop outside its steady loop
StopLoopStep ==
    \/ Cleanup \/ FailedCounted \/ FailedAgain \/ BackoffSlept \/ LoopTop \/ OpenFails
    \/ Reopened

NextStop ==
    \/ StopTick
    \/ CooldownDone
    \/ DetectWhileOpen
    \/ Advance
    \/ StopRequest
    \/ StopSeen
    \/ StopLoopRaises
    \/ StopLoopStep

SpecStop == InitOutage /\ [][NextStop]_vars

(* ---------------------------------------------------------------------- *)
(* One advertisement and then silence                                      *)
(* ---------------------------------------------------------------------- *)
\* on_detect for the only matching advertisement of the run; advertisements of
\* other devices may come at any time
SpikeDetect ==
    \E d \in Advertisers, r \in AdvRssi :
        /\ Matched(config, d[1], d[2]) => ~fresh
        /\ DetectBody(d, r)
        /\ UNCHANGED <<scenVars, raceVars, supVars, lifeVars, cfgVars, appVars, obsVars>>

NextSpike == Tick \/ CooldownDone \/ SpikeDetect \/ Advance

\* the configurations that ask for two consecutive qualifying scans
InitSpike == Init /\ config \in {CfgDebounce, CfgByName}

SpecSpike == InitSpike /\ [][NextSpike]_vars

(* ---------------------------------------------------------------------- *)
(* The host's callbacks (app.py)                                           *)
(* ---------------------------------------------------------------------- *)
HostMaxClock == 3

\* history only: calls of _run_near_command are counted up to RunCap
RunCap == 2

\* values of re_lock_delay_sec a configuration file can give (load_config
\* passes the key through as it is)
HostDelays ==
    {[t |-> "int", n |-> 0], [t |-> "int", n |-> -1], [t |-> "int", n |-> 2],
     [t |-> "float", tenths |-> 5], [t |-> "float", tenths |-> 25], [t |-> "null"]}

HostCommands == {"", "unlock-session"}

HostConfigs ==
    [rssi_threshold : {-73}, locking_enabled : BOOLEAN, re_lock_delay_sec : HostDelays,
     near_command : HostCommands]

ArmedKept(call, a) == a

\* app.py:99-102
ArmedAfterNear(call, a) == IF call THEN FALSE ELSE a

\* app.py:93-105, with _run_near_command (204-219)
HostOnNear ==
    \E rssi \in RssiValues :
        LET is_near == rssi > app_cfg.rssi_threshold
            call == is_near /\ ~was_near /\ armed
        IN  /\ armed' = ArmedAfterNear(call, armed)
            /\ was_near' = is_near
            /\ near_runs' = IF call THEN Min(near_runs + 1, RunCap) ELSE near_runs
            /\ app_did' = [op |-> "near", is_near |-> is_near, called |-> call,
                           ran |-> call /\ Strip(app_cfg.near_command) # "",
                           locked |-> FALSE, raised |-> FALSE]
            /\ UNCHANGED <<last_unlock_ts, app_cfg, app_now, away_seen>>
            /\ UNCHANGED otherThanHost

\* app.py:115: max(0, int(re_lock_delay_sec)); None stands for the exception
\* of int()
LockCooldown(cfg) ==
    LET d == ToInt(cfg.re_lock_delay_sec)
    IN  IF d = None THEN None ELSE Some(Max(0, Val(d)))

\* app.py:116-122
LockSkipped(cooldown, unlock_ts, now) ==
    cooldown > 0 /\ unlock_ts # 0 /\ now - unlock_ts < cooldown

\* app.py:107-125
HostOnAway ==
    LET c == LockCooldown(app_cfg)
        fails == app_cfg.locking_enabled /\ c = None
        locks == /\ app_cfg.locking_enabled
                 /\ c # None
                 /\ ~LockSkipped(Val(c), last_unlock_ts, app_now)
    IN  /\ was_near' = FALSE
        /\ armed' = TRUE
        /\ near_runs' = 0
        /\ away_seen' = TRUE
        /\ app_did' = [op |-> "away", is_near |-> FALSE, called |-> FALSE, ran |-> FALSE,
                       locked |-> locks, raised |-> fails]
        /\ UNCHANGED <<last_unlock_ts, app_cfg, app_now>>
        /\ UNCHANGED otherThanHost

\* app.py:470-478 and 545-552: the session reports an unlock
HostUnlock ==
    /\ last_unlock_ts' = app_now
    /\ app_did' = [NoHostEffect EXCEPT !.op = "unlock"]
    /\ UNCHANGED <<armed, was_near, app_cfg, app_now, near_runs, away_seen>>
    /\ UNCHANGED otherThanHost

\* app.py:286-288: the tray's locking toggle
HostToggleLocking ==
    /\ app_cfg' = [app_cfg EXCEPT !.locking_enabled = ~@]
    /\ app_did' = [NoHostEffect EXCEPT !.op = "toggle"]
    /\ UNCHANGED <<armed, was_near, last_unlock_ts, app_now, near_runs, away_seen>>
    /\ UNCHANGED otherThanHost

\* a second passes
HostElapse ==
    /\ app_now < Epoch + HostMaxClock
    /\ app_now' = app_now + 1
    /\ app_did' = [NoHostEffect EXCEPT !.op = "time"]
    /\ UNCHANGED <<armed, was_near, last_unlock_ts, app_cfg, near_runs, away_seen>>
    /\ UNCHANGED otherThanHost

NextHost == HostOnNear \/ HostOnAway \/ HostUnlock \/ HostToggleLocking \/ HostElapse

InitHost ==
    /\ MonitorConstructed
    /\ config = CfgQuick
    /\ NothingLoaded
    /\ HostIdle
    /\ app_cfg \in HostConfigs
    /\ UiIdle
    /\ FsIdle
    /\ DeskIdle

SpecHost == InitHost /\ [][NextHost]_vars

(* ---------------------------------------------------------------------- *)
(* The settings window's RSSI monitor (settings.py)                        *)
(* ---------------------------------------------------------------------- *)
MaxRssiThreads == 2

DeviceMacs == {"AA:01", "BB:02"}

\* lines 535-538 and 705-708: the selection is stored and the flag cleared
DeviceChangedStop ==
    /\ ui_pc = "idle"
    /\ Len(rssi_threads) < MaxRssiThreads
    /\ \E mac \in DeviceMacs : selected_mac' = mac
    /\ rssi_monitor_running' = FALSE
    /\ ui_pc' = "start"
    /\ UNCHANGED rssi_threads
    /\ UNCHANGED otherThanUi

\* lines 539-540 and 626-632, 702-703: the flag is set and a thread created
\* for the selected address
DeviceChangedStart ==
    /\ ui_pc = "start"
    /\ IF rssi_monitor_running
       THEN UNCHANGED <<rssi_monitor_running, rssi_threads>>
       ELSE /\ rssi_monitor_running' = TRUE
            /\ rssi_threads' = Append(rssi_threads, [pc |-> "test", mac |-> selected_mac])
    /\ ui_pc' = "idle"
    /\ UNCHANGED selected_mac
    /\ UNCHANGED otherThanUi

\* thread i moves to position p
RssiThreadTo(i, p) == rssi_threads' = [rssi_threads EXCEPT ![i].pc = p]

\* lines 637-695: a step of thread i of _start_rssi_monitor
RssiThreadStep(i) ==
    /\ i \in 1 .. Len(rssi_threads)
    /\ LET at == rssi_threads[i].pc
       IN  \/ /\ at = "test"                     \* line 641
              /\ RssiThreadTo(i, IF rssi_monitor_running THEN "open" ELSE "finally")
              /\ UNCHANGED rssi_monitor_running
           \/ /\ at = "open"                     \* lines 642-678
              /\ \E p \in {"inner", "backoff"} : RssiThreadTo(i, p)
              /\ UNCHANGED rssi_monitor_running
           \/ /\ at = "inner"                    \* line 679
              /\ RssiThreadTo(i, IF rssi_monitor_running THEN "sleep" ELSE "cleanup")
              /\ UNCHANGED rssi_monitor_running
           \/ /\ at = "sleep"                    \* line 680
              /\ RssiThreadTo(i, "inner")
              /\ UNCHANGED rssi_monitor_running
           \/ /\ at = "cleanup"                  \* lines 681-686
              /\ RssiThreadTo(i, "test")
              /\ UNCHANGED rssi_monitor_running
           \/ /\ at = "backoff"                  \* lines 687-691
              /\ RssiThreadTo(i, "test")
              /\ UNCHANGED rssi_monitor_running
           \/ /\ at = "finally"                  \* lines 692-695
              /\ RssiThreadTo(i, "done")
              /\ rssi_monitor_running' = FALSE
    /\ UNCHANGED <<selected_mac, ui_pc>>
    /\ UNCHANGED otherThanUi

RssiThreadsStep == \E i \in 1 .. MaxRssiThreads : RssiThreadStep(i)

NextSettings == DeviceChangedStop \/ DeviceChangedStart \/ RssiThreadsStep

InitSettings ==
    /\ MonitorConstructed
    /\ config = CfgQuick
    /\ NothingLoaded
    /\ HostIdle
    /\ app_cfg = DefaultAppCfg
    /\ UiIdle
    /\ FsIdle
    /\ DeskIdle

SpecSettings == InitSettings /\ [][NextSettings]_vars

\* _on_device_changed runs to its end and every thread is scheduled
SpecSettingsFair ==
    /\ SpecSettings
    /\ WF_vars(DeviceChangedStart)
    /\ \A i \in 1 .. MaxRssiThreads : WF_vars(RssiThreadStep(i))

(* ---------------------------------------------------------------------- *)
(* write_replace_text_in_dir (file_ops.py)                                 *)
(* ---------------------------------------------------------------------- *)
\* contents, in the chunks a write may be cut into
Contents == {<<>>, <<"a">>, <<"a", "b">>}

OldContents == {<<"o">>, <<"a">>}

TargetInPlace(tmp_name, dst_name) == dst_name

\* line 105: the file the content is written to
Target(tmp_name, dst_name) == tmp_name

\* the call ends with an exception raised at step s
WriteRaises(s) == w_pc' = "end" /\ w_result' = s

\* line 93: a symlink at dst_name is refused
WriteCheck ==
    /\ w_pc = "check"
    /\ IF fs["dst"].kind = "symlink"
       THEN WriteRaises("symlink")
       ELSE w_pc' = "create" /\ UNCHANGED w_result
    /\ UNCHANGED <<fs, w_content, w_old>>
    /\ UNCHANGED otherThanFs

\* lines 95-105: O_CREAT | O_EXCL | O_NOFOLLOW; the open fails if the name
\* exists, and may fail for other reasons
WriteCreate ==
    /\ w_pc = "create"
    /\ LET t == Target("tmp", "dst")
       IN  \/ /\ fs[t].kind = "absent"
              /\ fs' = [fs EXCEPT ![t] = File(<<>>)]
              /\ w_pc' = "write"
              /\ UNCHANGED w_result
           \/ /\ WriteRaises("create")
              /\ UNCHANGED fs
    /\ UNCHANGED <<w_content, w_old>>
    /\ UNCHANGED otherThanFs

\* lines 111-116: the temp file is unlinked (best effort) and the exception
\* raised again
WriteFails(s) ==
    /\ \/ fs' = [fs EXCEPT ![Target("tmp", "dst")] = NoFile]
       \/ UNCHANGED fs
    /\ WriteRaises(s)

\* lines 107-109: the next chunk reaches the file, or the write fails
WriteChunk ==
    /\ w_pc = "write"
    /\ LET t == Target("tmp", "dst")
           n == Len(fs[t].data)
       IN  \/ /\ n < Len(w_content)
              /\ fs' = [fs EXCEPT ![t].data = Append(@, w_content[n + 1])]
              /\ UNCHANGED <<w_pc, w_result>>
           \/ /\ n = Len(w_content)
              /\ w_pc' = "fsync"
              /\ UNCHANGED <<fs, w_result>>
           \/ WriteFails("write")
    /\ UNCHANGED <<w_content, w_old>>
    /\ UNCHANGED otherThanFs

\* line 110
WriteFsync ==
    /\ w_pc = "fsync"
    /\ \/ w_pc' = "replace" /\ UNCHANGED <<fs, w_result>>
       \/ WriteFails("fsync")
    /\ UNCHANGED <<w_content, w_old>>
    /\ UNCHANGED otherThanFs

\* line 117: os.replace renames the temp file over dst_name in one step, or
\* fails and changes nothing
WriteReplace ==
    /\ w_pc = "replace"
    /\ LET t == Target("tmp", "dst")
       IN  \/ /\ fs' = IF t = "dst" THEN fs
                       ELSE [fs EXCEPT !["dst"] = fs[t], ![t] = NoFile]
              /\ w_pc' = "dirsync"
              /\ UNCHANGED w_result
           \/ /\ WriteRaises("replace")
              /\ UNCHANGED fs
    /\ UNCHANGED <<w_content, w_old>>
    /\ UNCHANGED otherThanFs

\* lines 121-124: the directory fsync, whose failure is ignored
WriteDirSync ==
    /\ w_pc = "dirsync"
    /\ w_pc' = "end"
    /\ w_result' = "ok"
    /\ UNCHANGED <<fs, w_content, w_old>>
    /\ UNCHANGED otherThanFs

NextWrite ==
    \/ WriteCheck \/ WriteCreate \/ WriteChunk \/ WriteFsync \/ WriteReplace
    \/ WriteDirSync

\* the call begins: dst_name is absent, a symlink or a file; the temp name is
\* free, or taken by a file or a symlink
InitWrite ==
    /\ MonitorConstructed
    /\ config = CfgQuick
    /\ NothingLoaded
    /\ HostIdle
    /\ app_cfg = DefaultAppCfg
    /\ UiIdle
    /\ DeskIdle
    /\ w_old \in {NoFile, Symlink} \cup {File(c) : c \in OldContents}
    /\ \E t \in {NoFile, Symlink, File(<<"a">>)} : fs = [n \in {"dst", "tmp"} |->
                                                          IF n = "dst" THEN w_old ELSE t]
    /\ w_content \in Contents
    /\ w_pc = "check"
    /\ w_result = "none"

SpecWrite == InitWrite /\ [][NextWrite]_vars

(* ---------------------------------------------------------------------- *)
(* The autostart entry (app.py)                                            *)
(* ---------------------------------------------------------------------- *)
\* A command line is a base command inside the delay wrappers put around it,
\* innermost first: [base |-> "b", sleeps |-> <<5>>] is
\* /bin/sh -c 'sleep 5; CMD=$(... | base64 -d); exec sh -c "$CMD"' dummy <b in base64>
Command(base) == [base |-> base, sleeps |-> <<>>]

DelayValues == {-1, 0, 5, 30}

\* lines 414-430
wrap_with_delay(cmd, delay_sec) ==
    LET delay == Max(0, delay_sec)
    IN  IF delay <= 0 THEN cmd ELSE [cmd EXCEPT !.sleeps = Append(@, delay)]

\* lines 388-412: the Exec line is wrapped, whatever it holds (lines 400-406
\* take cmd = orig on both arms)
ensure_exec_delay(e, delay_sec) == [e EXCEPT !.exec = wrap_with_delay(@, delay_sec)]

\* lines 363-386
ensure_autostart_flags(e) == [e EXCEPT !.enabled = TRUE, !.hidden = FALSE]

\* the desktop file of ~/.local/share/applications
InstalledDesktop ==
    [exec |-> Command("bluetooth-screen-lock"), enabled |-> FALSE, hidden |-> TRUE]

\* lines 326-335: the launcher of ~/.local/bin, else the module run by sh -c
FallbackCommand(inst) ==
    IF inst.bin THEN Command("~/.local/bin/bluetooth-screen-lock")
    ELSE Command("/bin/sh -c 'PYTHONPATH=... exec python3 -m bluetooth_screen_lock'")

\* lines 337-350
GeneratedDesktop(inst, delay_sec) ==
    [exec |-> wrap_with_delay(FallbackCommand(inst), delay_sec), enabled |-> TRUE,
     hidden |-> FALSE]

\* lines 313-361: _apply_autostart(enable)
ApplyAutostart ==
    \E enable \in BOOLEAN :
        /\ IF enable
           THEN LET written == IF installed.desktop THEN InstalledDesktop
                               ELSE GeneratedDesktop(installed, start_delay_sec)
                IN  /\ entry' = Some(ensure_exec_delay(ensure_autostart_flags(written),
                                                       start_delay_sec))
                    /\ applied' = IF installed.desktop THEN "copied" ELSE "generated"
           ELSE /\ entry' = None
                /\ applied' = "removed"
        /\ UNCHANGED <<start_delay_sec, installed>>
        /\ UNCHANGED otherThanDesk

\* lines 262-263: the settings window gives another start delay
SetStartDelay ==
    /\ \E d \in DelayValues : start_delay_sec' = Max(0, d) /\ start_delay_sec' # start_delay_sec
    /\ applied' = "none"
    /\ UNCHANGED <<entry, installed>>
    /\ UNCHANGED otherThanDesk

\* the application's desktop file or launcher is installed or removed
Reinstall ==
    /\ installed' \in [desktop : BOOLEAN, bin : BOOLEAN]
    /\ installed' # installed
    /\ applied' = "none"
    /\ UNCHANGED <<entry, start_delay_sec>>
    /\ UNCHANGED otherThanDesk

NextAutostart == ApplyAutostart \/ SetStartDelay \/ Reinstall

\* start_delay_sec as the configuration file gives it
InitAutostart ==
    /\ MonitorConstructed
    /\ config = CfgQuick
    /\ NothingLoaded
    /\ HostIdle
    /\ app_cfg = DefaultAppCfg
    /\ UiIdle
    /\ FsIdle
    /\ entry = None
    /\ start_delay_sec \in DelayValues
    /\ installed \in [desktop : BOOLEAN, bin : BOOLEAN]
    /\ applied = "none"

SpecAutostart == InitAutostart /\ [][NextAutostart]_vars

(* ---------------------------------------------------------------------- *)
(* Properties                                                              *)
(* ---------------------------------------------------------------------- *)
TickSample == Val(emitted.rssi)
NearEmitted == emitted.near # None
AwayEmitted == emitted.away # "no"

SilentAwayIff ==
    (step = "tick" /\ last_seen_ts # 0 /\ TickSample = None) =>
        (AwayEmitted <=>
            clock - last_seen_ts >= config.stale_after_sec + config.unseen_grace_sec)

SilentAwayAtBoundary ==
    /\ step = "tick" /\ last_seen_ts # 0 /\ TickSample = None
    /\ emitted.away = "silent"
    /\ clock - last_seen_ts = config.stale_after_sec + config.unseen_grace_sec
    /\ config.unseen_grace_sec > 0

\* C6: a tick later than max(stale_after, 1) after the last detection
\* evaluates a null RSSI and nulls last_rssi; an earlier tick evaluates
\* last_rssi unchanged; a nulled last_rssi stays null, tick after tick, until
\* a detection writes it again.
StalenessInvalidation ==
    [][/\ (step' = "tick" /\ last_seen_ts # 0) =>
            IF clock - last_seen_ts > Max(config.stale_after_sec, 1)
            THEN emitted'.rssi = Some(None) /\ last_rssi' = None
            ELSE emitted'.rssi = Some(last_rssi) /\ last_rssi' = last_rssi
       /\ (step' = "tick" /\ last_rssi = None) => emitted'.rssi = Some(None)
       /\ (last_rssi = None /\ last_rssi' # None) => step' = "detect"
      ]_vars

StaleSampleNulled ==
    /\ step = "tick" /\ last_seen_ts # 0
    /\ adv_rssi # None /\ Val(adv_rssi) # None
    /\ clock - last_seen_ts = Max(config.stale_after_sec, 1) + 1
    /\ last_rssi = None /\ TickSample = None

\* C7: update_config empties the tracker, and until a new matching detection
\* arrives no tick emits Near or Away; an Away emitted later rests on time
\* that passed after the swap only.
ConfigSwapResets ==
    /\ step = "update_config" =>
          /\ last_seen_ts = 0 /\ last_rssi = None
          /\ below_since_ts = None /\ near_consec_count = 0
    /\ ~fresh =>
          /\ last_seen_ts = 0 /\ last_rssi = None
          /\ below_since_ts = None /\ near_consec_count = 0
    /\ (step = "tick" /\ ~fresh) => (~NearEmitted /\ ~AwayEmitted)
    /\ (step = "tick" /\ emitted.away = "weak") =>
          since_swap >= Min(config.grace_period_sec, SwapCap)
    /\ (step = "tick" /\ emitted.away = "silent") =>
          since_swap >= Min(config.stale_after_sec + config.unseen_grace_sec, SwapCap)

WeakTickAfterSwapOfRunningTimer ==
    /\ step = "tick" /\ cleared_timer /\ fresh
    /\ since_swap < config.grace_period_sec
    /\ TickSample # None /\ Val(TickSample) <= config.rssi_threshold
    /\ ~AwayEmitted

\* C9: after an Away the loop ticks again only once grace_period has elapsed
\* (so two Away emissions are at least grace_period apart); a tick that
\* emits Near is followed by the next tick after scan_interval alone.
AwayCooldown ==
    [][/\ step' = "tick" => clock' >= cool_until
       /\ (step' = "tick" /\ emitted'.away # "no") =>
             /\ pc' = "cooldown"
             /\ wake_at' = clock' + config'.grace_period_sec
       /\ (step' = "tick" /\ emitted'.near # None) =>
             /\ emitted'.away = "no"
             /\ pc' = "tick"
             /\ wake_at' = clock' + Max(1, config'.scan_interval_sec)
      ]_vars

CooldownElapsed ==
    /\ step = "cooldown_done" /\ cool_until > Epoch
    /\ clock = cool_until /\ pc = "tick"

\* the weak-signal timer after step 3 of the evaluation order, for sample s
TimerAfterStep3(t, s, now, cfg) ==
    IF s = None THEN t
    ELSE IF Val(s) <= cfg.rssi_threshold THEN (IF t = None THEN Some(now) ELSE t)
    ELSE IF Val(s) > cfg.rssi_threshold + Max(0, cfg.hysteresis_db) THEN None
    ELSE t

DebounceAcrossSwap ==
    step = "tick" =>
        (NearEmitted <=> qual_raw >= config.near_consecutive_scans)

\* C4 amended: Near is emitted exactly when this tick's sample and the
\* required-1 tick samples before it, counted since construction or the last
\* update_config, all exceeded near_trigger; a null or non-exceeding sample
\* leaves near_consecutive_count at 0.
DebounceSinceSwap ==
    step = "tick" =>
        /\ NearEmitted <=> qual >= config.near_consecutive_scans
        /\ NearEmitted => emitted.near = TickSample
        /\ Class(TickSample, config) # "strong" => near_consec_count = 0

NearAfterTwoPasses ==
    /\ step = "tick" /\ NearEmitted
    /\ config.near_consecutive_scans = 2 /\ qual = 2

\* C5 as stated: whenever the timer is set and has run grace_period at a
\* tick, Away is emitted and the timer cleared, whatever the sample.
WeakAwayOnTimerAlone ==
    [][(step' = "tick" /\ last_seen_ts # 0) =>
          LET s == Val(emitted'.rssi)
              t == TimerAfterStep3(below_since_ts, s, clock, config)
          IN  (t # None /\ clock - Val(t) >= config.grace_period_sec) =>
                  (emitted'.away # "no" /\ below_since_ts' = None)
      ]_vars

\* C5 amended: on a tick with a non-null sample, Away is emitted through the
\* weak-signal path exactly when the timer (after step 3) is set and has run
\* grace_period, and the timer is then cleared; on a tick with a null sample
\* the weak-signal path does not fire and leaves the timer as it is.
WeakAwayWhenDetected ==
    [][(step' = "tick" /\ last_seen_ts # 0) =>
          LET s == Val(emitted'.rssi)
              t == TimerAfterStep3(below_since_ts, s, clock, config)
          IN  /\ s # None =>
                    /\ emitted'.away = "weak" <=>
                          (t # None /\ clock - Val(t) >= config.grace_period_sec)
                    /\ emitted'.away # "silent"
                    /\ below_since_ts' = IF emitted'.away = "weak" THEN None ELSE t
              /\ s = None =>
                    /\ emitted'.away # "weak"
                    /\ emitted'.away = "no" => below_since_ts' = below_since_ts
      ]_vars

WeakAwayFiresAtGrace ==
    /\ step = "tick" /\ emitted.away = "weak"
    /\ config.grace_period_sec > 0
    /\ below_since_ts = None /\ pc = "cooldown"

Aways == {i \in 1 .. Len(log) : log[i].ev # "near"}
Nears == {i \in 1 .. Len(log) : log[i].ev = "near"}

\* C10 as stated: in the scripted scenario Away is emitted at or after t=15
\* and not before, and the detection of -60 at t=20 makes Near fire at the
\* first scan tick after it, within one scan_interval and before any
\* further Away.
ScenarioNearPrompt ==
    /\ \A i \in Aways : log[i].at >= 15
    /\ (feed_idx > Len(Feed) /\ clock - Epoch > 20 + scan_interval) =>
          \E i \in Nears :
              /\ log[i].at >= 20 /\ log[i].at <= 20 + scan_interval
              /\ Cardinality({j \in Aways : j < i}) = 1

\* C10 amended: Away is emitted at or after t=15 and not before (at the first
\* tick from t=16 on, t = 16..18); the loop then sleeps grace_period +
\* scan_interval = 17 s, so the detection of -60 at t=20 is first sampled at
\* t >= 33, when it is stale (stale_after=6): no Near is emitted for it and
\* the next event is a second Away, through silence, at t = 34 or 35.
ScenarioNearMissed ==
    /\ \A i \in Aways : log[i].at >= 15
    /\ clock - Epoch > 18 =>
          (Len(log) >= 1 /\ log[1].ev = "weak" /\ log[1].at \in 16 .. 18)
    /\ Nears = {}
    /\ (step = "tick" /\ Len(log) >= 1 /\ clock - Epoch > log[1].at) =>
          clock - Epoch >= log[1].at + 15 + 2
    /\ Len(log) >= 2 =>
          (log[2].ev = "silent" /\ log[2].at \in 34 .. 35)
    /\ clock - Epoch > 35 => Len(log) >= 2

ScenarioSecondAway ==
    /\ feed_idx > Len(Feed)
    /\ Len(log) = 2 /\ log[1].ev = "weak" /\ log[2].ev = "silent"

\* a tick that evaluated a non-null sample of a device seen before
DetectedTick == step' = "tick" /\ last_seen_ts # 0 /\ Val(emitted'.rssi) # None

\* C11: a non-null tick sample in the dead zone (rssi_threshold < rssi <=
\* near_trigger) neither starts nor clears below_threshold_since; a sample <=
\* rssi_threshold starts the timer if it is unset and does not move a running
\* start time; only a sample > near_trigger clears it. (A weak-signal Away
\* fired later in the same tick clears the timer it fired on.)
DeadZoneKeepsTimer ==
    [][DetectedTick =>
          LET s == Val(Val(emitted'.rssi))
              weak == s <= config.rssi_threshold
              strong == s > config.rssi_threshold + Max(0, config.hysteresis_db)
              fired == emitted'.away = "weak"
          IN  /\ (~weak /\ ~strong) =>
                    /\ ~fired => below_since_ts' = below_since_ts
                    /\ fired => (below_since_ts # None /\
                                 clock - Val(below_since_ts) >= config.grace_period_sec)
              /\ weak =>
                    /\ (~fired /\ below_since_ts = None) => below_since_ts' = Some(clock)
                    /\ (~fired /\ below_since_ts # None) => below_since_ts' = below_since_ts
                    /\ (fired /\ below_since_ts # None) =>
                          clock - Val(below_since_ts) >= config.grace_period_sec
              /\ strong => (below_since_ts' = None /\ ~fired)
              /\ (~fired /\ below_since_ts # None /\ below_since_ts' = None) => strong
      ]_vars

DeadZoneTickWithRunningTimer ==
    /\ step = "tick" /\ TickSample # None
    /\ Class(TickSample, config) = "dead"
    /\ below_since_ts # None /\ Val(below_since_ts) < clock
    /\ emitted.away = "no"

\* the configurations with threshold=-75 and hysteresis=5
BoundaryConfig == config.rssi_threshold = -75 /\ config.hysteresis_db = 5

\* C12 as stated: with threshold=-75, hysteresis=5 and the timer running, a
\* tick sample of -71 clears the timer and a tick sample of -70 does not.
ClearBoundaryAt71 ==
    [][(DetectedTick /\ BoundaryConfig /\ below_since_ts # None
        /\ emitted'.away = "no") =>
          /\ Val(emitted'.rssi) = Some(-71) => below_since_ts' = None
          /\ Val(emitted'.rssi) = Some(-70) => below_since_ts' = below_since_ts
      ]_vars

\* C12 amended: with threshold=-75, hysteresis=5 (near_trigger = -70) and the
\* timer running, a tick sample of -69 clears the timer; tick samples of -70
\* and of -71 do not.
ClearBoundaryAt69 ==
    [][(DetectedTick /\ BoundaryConfig /\ below_since_ts # None) =>
          /\ Val(emitted'.rssi) = Some(-69) => below_since_ts' = None
          /\ (Val(emitted'.rssi) \in {Some(-70), Some(-71)} /\ emitted'.away = "no")
                => below_since_ts' = below_since_ts
      ]_vars

TimerSurvivesSampleOf71 ==
    /\ step = "tick" /\ TickSample = Some(-71)
    /\ BoundaryConfig
    /\ below_since_ts # None /\ Val(below_since_ts) < clock

\* the step is on_detect for an advertisement of d, the first detection of
\* this second
DetectionOf(d) ==
    /\ last_seen_ts # clock
    /\ IF Matched(config, d[1], d[2])
       THEN last_seen_ts' = clock /\ last_rssi' \in AdvRssi
       ELSE UNCHANGED <<last_seen_ts, last_rssi>>

TrackerUnchanged ==
    UNCHANGED <<last_seen_ts, last_rssi, below_since_ts, near_consec_count>>

\* equality of two strings up to case
SameIgnoringCase(a, b) == Lower(a) = Lower(b)

NoTarget == config.device_mac = "" /\ config.device_name = ""

RssiUpdateEveryTick ==
    /\ step = "tick" =>
          /\ emitted.rssi # None
          /\ TickSample = last_rssi
          /\ last_seen_ts = 0 => TickSample = None
          /\ NearEmitted => (TickSample # None /\ emitted.near = TickSample)
          /\ emitted.away = "weak" => TickSample # None
          /\ emitted.away = "silent" => TickSample = None
    /\ step # "tick" => emitted.rssi = None

NullRssiUpdateWithAway ==
    /\ step = "tick" /\ emitted.away = "silent"
    /\ emitted.rssi = Some(None)
    /\ adv_rssi # None

\* C16: once near_consecutive_count has reached near_consecutive_required,
\* every further tick whose sample is non-null and above near_trigger emits
\* Near again (with that sample), not only the tick of the transition.
NearLevelTriggered ==
    [][(DetectedTick /\ on_near
        /\ near_consec_count >= Max(1, config.near_consecutive_scans)
        /\ Val(Val(emitted'.rssi)) > config.rssi_threshold + Max(0, config.hysteresis_db))
          => /\ emitted'.near = Val(emitted'.rssi)
             /\ near_consec_count' = Max(1, config.near_consecutive_scans)
      ]_vars

NearRepeated ==
    /\ step = "tick" /\ NearEmitted
    /\ qual > Max(1, config.near_consecutive_scans)

\* C17 as stated: at the end of every tick 0 <= near_consecutive_count <=
\* max(1, near_consecutive_required), with or without an on_near callback.
CounterBounded ==
    step = "tick" =>
        (0 <= near_consec_count
         /\ near_consec_count <= Max(1, config.near_consecutive_scans))

\* C18: no failure while opening, running or stopping the scanner ends the
\* loop: it exits only at the loop top with the running flag cleared, and
\* after every failure it reaches another open attempt unless a stop was
\* requested meanwhile.
FailuresNeverFatal ==
    /\ [][(s_pc' = "done" /\ s_pc # "done") => (s_pc = "top" /\ ~running)]_vars
    /\ [](s_pc = "done" => ~running)
    /\ (s_pc \in {"cleanup", "failed", "backoff"}) ~> (s_pc = "open" \/ ~running)

OpenAttemptAfterEveryKindOfFailure ==
    /\ failures = {"open", "run", "stop"}
    /\ s_pc = "open" /\ running

\* the k-th retry delay without a successful open in between
ExpectedBackoff(k) == IF k <= 5 THEN 2 ^ (k - 1) ELSE 30

\* C19: the retry delays slept without a successful open in between are 1, 2,
\* 4, 8, 16, 30, 30, ... seconds; a successful open makes the next delay 1 s;
\* the backoff value is always within [1, 30].
BackoffGrowth ==
    /\ backoff >= 1 /\ backoff <= 30
    /\ \A k \in 1 .. Len(sleeps) : sleeps[k] = ExpectedBackoff(k)
    /\ s_pc \notin {"none", "begin"} => backoff = ExpectedBackoff(Len(sleeps) + 1)
    /\ s_pc \in {"steady", "sleep", "cooldown"} => (backoff = 1 /\ sleeps = <<>>)

SeventhBackoff ==
    /\ Len(sleeps) = 7 /\ sleeps[6] = 30 /\ sleeps[7] = 30
    /\ s_pc = "open"

TeardownOnFailure ==
    s_pc = "backoff" => scanner \in {"none", "stopped"}

\* C22 as stated: when a call of stop_async returns, whoever made it and
\* whether or not another call is still waiting, every scan-loop task has
\* returned (and with it released its scanner).
StopConfirmed ==
    step = "stop_async returns" => \A i \in 1 .. Len(tasks) : tasks[i] = "done"

\* tasks inside the steady loop: they run ticks and hold a started scanner
OpenTasks == {i \in 1 .. Len(tasks) : tasks[i] \in {"steady", "sleep"}}

\* C23 as stated: however start() and stop_async() are interleaved, at most
\* one scan-loop task is running ticks and at most one scanner is open.
SingleScanTask == Cardinality(OpenTasks) <= 1

\* the running flag, the tasks and the tracker
ControlState ==
    <<running, tasks, task, callers, config, scan_interval, last_seen_ts, last_rssi,
      below_since_ts, near_consec_count>>

\* C24: start() called while the monitor is running creates no task and
\* changes nothing; stop_async() called while it is not running changes
\* nothing; update_config, whenever called, changes neither the running flag
\* nor the task.
IdempotentControls ==
    /\ [][(step' = "start" /\ running) => UNCHANGED ControlState]_vars
    /\ [][(step' = "stop_async returns" /\ ~running /\ callers' = callers)
            => UNCHANGED ControlState]_vars
    /\ [][step' = "update_config" => UNCHANGED <<running, tasks, task, callers>>]_vars

StartWhileRunning ==
    /\ step = "start" /\ running
    /\ task # 0 /\ tasks[task] = "sleep"

\* the tracker and the sleep a tick leaves when every statement of it ran
FullTick ==
    LET o == TickOutcome(config, last_seen_ts, last_rssi, below_since_ts,
                         near_consec_count, clock, on_near)
    IN  /\ last_rssi' = o.rssi
        /\ near_consec_count' = o.count
        /\ below_since_ts' = o.below
        /\ emitted' = o.events
        /\ pc' = IF o.events.away # "no" THEN "cooldown" ELSE "tick"
        /\ wake_at' = clock + (IF o.events.away # "no" THEN Cooldown(config)
                                                      ELSE ScanInterval(config))

\* C25: a callback that raises neither ends the steady loop nor starts a
\* teardown and backoff, and the tick still does all its updates: after a
\* failing on_near the counter is clamped and the weak-signal timer updated,
\* after a failing on_away the timer is cleared and the cooldown slept.
CallbackErrorsIsolated ==
    [][(step' = "tick" /\ cb_failed' # {})
        => /\ s_pc' = "steady" /\ ~raised' /\ failures' = failures
           /\ FullTick
           /\ "on_near" \in cb_failed' =>
                near_consec_count' = Max(1, config.near_consecutive_scans)
           /\ "on_away" \in cb_failed' =>
                (below_since_ts' = None /\ pc' = "cooldown")
      ]_vars

RepeatedNearCallbackFailed ==
    /\ step = "tick"
    /\ cb_failed = {"on_rssi", "on_near"}
    /\ qual > Max(1, config.near_consecutive_scans)
    /\ near_consec_count = Max(1, config.near_consecutive_scans)
    /\ s_pc = "steady"

\* C26 as stated: when the scan-interval sleep, the Away-cooldown sleep or
\* the backoff sleep is over, the loop is at a test of the running flag
\* (line 153 or line 113) before it sleeps or ticks again.
StopObservedAfterSleep ==
    [][(s_pc \in {"sleep", "cooldown", "backoff"} /\ s_pc' # s_pc /\ ~raised')
        => s_pc' \in {"steady", "top"}]_vars

\* C27: when several matching detections arrive between two ticks, each
\* replaces the pair (last_seen_ts, last_rssi) of the one before and touches
\* nothing else, and the next tick is the tick of the latest detection alone:
\* its events, the counter, the timer and the stored rssi are those computed
\* from the latest advertisement's rssi.
Coalescing ==
    /\ [][(step' = "detect" /\ skipped' # skipped)
            => /\ last_seen_ts' = clock
               /\ last_rssi' = Val(adv_rssi')
               /\ UNCHANGED <<below_since_ts, near_consec_count>>]_vars
    /\ [][(step' = "tick" /\ skipped.pending)
            => LET o == TickOutcome(config, last_seen_ts, Val(adv_rssi), below_since_ts,
                                    near_consec_count, clock, on_near)
               IN  /\ emitted' = o.events
                   /\ near_consec_count' = o.count
                   /\ below_since_ts' = o.below
                   /\ last_rssi' = o.rssi]_vars

TickAfterReplacedDetection ==
    /\ step = "tick"
    /\ skipped.over # None
    /\ Val(emitted.rssi) # None
    /\ Val(Val(emitted.rssi)) < Val(Val(skipped.over))

\* the RSSI status observers were last given is unknown
StatusUnknown == last_update \in {None, Some(None)}

\* C28 as stated: from the moment the scanner can no longer be opened no Near
\* and no Away is emitted, and the status observers have is unknown: the
\* latest RssiUpdate delivered is null, or a null one is delivered later.
OutageShowsUnknown ==
    /\ [][failures' # {} => (emitted'.near = None /\ emitted'.away = "no")]_vars
    /\ (failures # {}) ~> StatusUnknown

\* C30: the consecutive-error counter grows by one with every failure that
\* ends an attempt and returns to 0 only when a scanner was started; a
\* failure is logged as a warning exactly when the counter, after counting it,
\* is at most 3, so that of a run of consecutive failures only the first three
\* are warnings.
LogDespam ==
    /\ [](/\ Len(levels) = ble_error_count
          /\ \A k \in 1 .. Len(levels) :
                levels[k] = (IF k <= 3 THEN "warning" ELSE "debug"))
    /\ [][(s_pc = "failed" /\ s_pc' # "failed")
            => ble_error_count' = ble_error_count + 1]_vars
    /\ [][ble_error_count' # ble_error_count
            => \/ s_pc = "failed" /\ ble_error_count' = ble_error_count + 1
               \/ s_pc = "open" /\ scanner' = "started" /\ ble_error_count' = 0]_vars

FourthFailureAtDebugLevel ==
    /\ ble_error_count = 4
    /\ levels = <<"warning", "warning", "warning", "debug">>
    /\ failures = {"open", "run", "stop"}

\* C29: whatever the configuration file holds, also when it is missing, is
\* not YAML or gives values of the wrong type, load_config returns a
\* configuration with scan_interval_sec >= 1, rssi_threshold within
\* [-120, -20] and grace_period_sec within [0, 600].
LoaderClamps ==
    loaded # None =>
        LET cfg == Val(loaded)
        IN  /\ \/ cfg.scan_interval_sec.k = "inf"
               \/ cfg.scan_interval_sec.k = "num" /\ cfg.scan_interval_sec.v >= 10
            /\ cfg.rssi_threshold >= -120 /\ cfg.rssi_threshold <= -20
            /\ cfg.grace_period_sec >= 0 /\ cfg.grace_period_sec <= 600

LoadedOutOfRangeAndMistyped ==
    /\ loaded # None
    /\ file.kind = "mapping"
    /\ file.rssi_threshold = [t |-> "int", n |-> -200]
    /\ file.grace_period_sec = [t |-> "float", tenths |-> 6009]
    /\ file.scan_interval_sec = [t |-> "str", s |-> "abc"]
    /\ Val(loaded) = [scan_interval_sec |-> [k |-> "num", v |-> 20],
                      rssi_threshold |-> -120, grace_period_sec |-> 600]

\* the seconds the model leaves after a detection for the Away that follows
\* the disappearance: stale_after + unseen_grace and the sleeps in between
AwayLatency == 4

\* C31 as stated: once the target was seen at t and no further matching
\* detection arrives, Away is emitted, also while the scanner fails and is
\* being retried.
AwayAfterDisappearance ==
    \A t \in Epoch .. (Epoch + MaxClock - AwayLatency) :
        (step = "detect" /\ clock = t /\ last_seen_ts = t)
            ~> (emitted.away # "no" \/ last_seen_ts # t)

\* C32: once stop_async has cleared the running flag the scan loop emits no
\* further Near, Away or RssiUpdate, wherever it was suspended: in
\* scanner.start(), the scan-interval sleep, the Away cooldown or the backoff
\* sleep.
NoEventsAfterStop ==
    [][~running => (emitted' = NoEvents \/ UNCHANGED emitted)]_vars

\* the flag was cleared during the cooldown that follows an Away
StoppedInCooldown ==
    /\ ~running
    /\ s_pc = "steady"
    /\ pc = "cooldown"
    /\ emitted.away # "no"

\* C33 as stated: with near_consecutive_required >= 2, a single matching
\* advertisement that is followed by no further one never causes Near.
SpikeRejected == Need(config) >= 2 => emitted.near = None

\* C34: no tick emits both Near and Away, and a tick emits at most one Away:
\* the weak-signal path fires only on a non-null sample, the silence path only
\* on a null one.
NearAwayExclusive ==
    step = "tick" =>
        /\ ~(emitted.near # None /\ emitted.away # "no")
        /\ emitted.away \in {"no", "weak", "silent"}
        /\ emitted.away = "weak" => TickSample # None
        /\ emitted.away = "silent" => TickSample = None

\* Near is emitted where the Near zone and the weak zone touch: no hysteresis
NearWithoutHysteresis ==
    /\ step = "tick"
    /\ emitted.near # None
    /\ emitted.away = "no"
    /\ NearTrigger(config) = config.rssi_threshold

\* C35: armed is false at startup, becomes true only in on_away and false when
\* the near command is run; the near command is not run before the first Away
\* and at most once between two Aways, however many Near events come.
ArmingDiscipline ==
    /\ [](~away_seen => (~armed /\ near_runs = 0))
    /\ [][/\ (armed' /\ ~armed) => app_did'.op = "away"
          /\ app_did'.called => (app_did'.op = "near" /\ armed /\ ~armed' /\ away_seen)
          /\ (armed /\ ~armed') => app_did'.called
          /\ near_runs' <= 1]_vars

\* a Near transition that comes after the near command was run, and before
\* the next Away, does not run it again
SecondNearNotRun ==
    /\ app_did.op = "near"
    /\ app_did.is_near
    /\ ~app_did.called
    /\ near_runs = 1
    /\ away_seen

\* C36 as stated: on_away sets was_near false and armed true, and locks the
\* screen if and only if locking is enabled and it is not the case that
\* re_lock_delay_sec > 0, an unlock was observed and less than
\* re_lock_delay_sec has passed since it.
DelayTenths(v) ==
    CASE v.t = "int" -> v.n * 10
      [] v.t = "float" -> v.tenths
      [] OTHER -> 0

AwayLocksIff ==
    app_did.op = "away" =>
        /\ ~was_near
        /\ armed
        /\ app_did.locked <=>
              /\ app_cfg.locking_enabled
              /\ ~(/\ DelayTenths(app_cfg.re_lock_delay_sec) > 0
                   /\ last_unlock_ts # 0
                   /\ (app_now - last_unlock_ts) * 10
                          < DelayTenths(app_cfg.re_lock_delay_sec))

\* the threads of the RSSI monitor that have not ended
RunningRssiThreads == {i \in 1 .. Len(rssi_threads) : rssi_threads[i].pc # "done"}

\* C37 as stated: after the selected device has changed, the threads started
\* earlier end, and the thread started for the new selection keeps running
\* and is the only one.
RestartLeavesOneMonitor ==
    <>[](\/ rssi_threads = <<>>
         \/ /\ RunningRssiThreads = {Len(rssi_threads)}
            /\ rssi_threads[Len(rssi_threads)].mac = selected_mac)

\* C38: dst_name holds what it held before the call or the complete new
\* content, at every moment; after a call that raised it holds what it held
\* before, after a call that returned the complete new content.
AtomicReplacement ==
    /\ fs["dst"] \in {w_old, File(w_content)}
    /\ w_result = "ok" => fs["dst"] = File(w_content)
    /\ w_result \notin {"none", "ok"} => fs["dst"] = w_old

\* a write failed after a part of the content had reached the temp file
WriteFailedHalfway ==
    /\ w_result = "write"
    /\ w_old = File(<<"o">>)
    /\ w_content = <<"a", "b">>
    /\ fs["tmp"] = File(<<"a">>)

\* C39 as stated: after _apply_autostart(True) the Exec line wraps the base
\* command in the delay wrapper exactly once if start_delay_sec > 0, on the
\* copy branch and on the generate branch, and is the unwrapped command if
\* start_delay_sec = 0.
DelayAppliedOnce ==
    applied \in {"copied", "generated"} =>
        Val(entry).exec.sleeps = IF start_delay_sec > 0 THEN <<start_delay_sec>> ELSE <<>>

\* what a tick and update_config that ran at the same time leave behind
Outcome ==
    [monitor |-> Monitor, scan_interval |-> scan_interval, pc |-> pc,
     wake_at |-> wake_at, emitted |-> emitted]

\* the tick on the old configuration and tracker, then update_config
SerialTickFirst ==
    LET s == Val(snap)
        o == TickOutcome(s.config, s.tracker.last_seen_ts, s.tracker.last_rssi,
                         s.tracker.below_since_ts, s.tracker.near_consec_count,
                         clock, on_near)
        away == o.events.away # "no"
    IN  [monitor |-> [config |-> config,
                      tracker |-> [last_seen_ts |-> 0, last_rssi |-> None,
                                   below_since_ts |-> None, near_consec_count |-> 0]],
         scan_interval |-> ScanInterval(config),
         pc |-> IF away THEN "cooldown" ELSE "tick",
         wake_at |-> clock + (IF away THEN Cooldown(s.config) ELSE ScanInterval(s.config)),
         emitted |-> o.events]

\* update_config, then the tick on the new configuration and the empty tracker
SerialSwapFirst ==
    [monitor |-> [config |-> config,
                  tracker |-> [last_seen_ts |-> 0, last_rssi |-> None,
                               below_since_ts |-> None, near_consec_count |-> 0]],
     scan_interval |-> ScanInterval(config),
     pc |-> "tick",
     wake_at |-> clock + ScanInterval(config),
     emitted |-> [rssi |-> Some(None), near |-> None, away |-> "no"]]

BothReturned == BothIdle /\ overlap /\ step \in {"tick", "update_config"}

\* C8: when update_config runs in another thread during a tick, the tick sees
\* either the old configuration with the old tracker or the new configuration
\* with the empty tracker: once both have returned, the events of the tick, the
\* sleep it entered and the monitor's fields are those of the tick followed by
\* update_config, or those of update_config followed by the tick.
ConfigSwapAtomic ==
    BothReturned => Outcome \in {SerialTickFirst, SerialSwapFirst}

====
